---------------------------- MODULE Spec2Model ----------------------------
(***************************************************************************)
(* The single-pass bytecode compiler (src/src/vm/compiler.rs) and the      *)
(* stack virtual machine (src/src/vm/vm.rs) of the Lox implementation,     *)
(* driven by VMRuntime::run (src/src/runtime.rs), with the scanner         *)
(* (src/src/process/scanner.rs) in front of them, and the loop of          *)
(* Runtime::run over the statements of the tree-walking interpreter        *)
(* (src/src/process/interpreter.rs).                                       *)
(*                                                                         *)
(* A run starts from a source text (VMRuntime::run scans it and compiles   *)
(* the tokens), from a token sequence given to Compiler::new, or from the  *)
(* statements the parser hands to Runtime::run.                            *)
(*                                                                         *)
(* Indices (token index, instruction pointer, stack slot, constant index)  *)
(* keep the 0-based values of the Rust code; At(seq, i) reads element i.   *)
(* Numbers (f64 in the code) are integers here.                            *)
(* A Rust panic (expect/unwrap/panic!/index out of bounds) ends the        *)
(* process: it is the outcome "panic", distinct from an Err result.        *)
(***************************************************************************)
EXTENDS Integers, Sequences, FiniteSets, TLC

VARIABLES
    source,       \* the source text handed to scan_tokens
    tokens,       \* the token sequence handed to Compiler::new
    statements,   \* the statements Runtime::run loops over
    position,     \* the index of the next statement of that loop
    environment,  \* Interpreter.environment
    lox_functions, \* Interpreter.lox_functions
    counter,      \* Interpreter.counter
    ret,          \* Interpreter.ret
    pc,           \* position of the run: "scan", "compile", "run",
                  \* "interpret", "done", or "loop": in a loop of the
                  \* interpreter that is never left
    call_frames,  \* VirtualMachine.call_frames
    stack,        \* VirtualMachine.stack
    globals,      \* VirtualMachine.globals
    id,           \* VirtualMachine.id
    status,       \* "none", "running", "ok", "compile_error", "runtime_error",
                  \* "panic", "loop", "cut"
    panic_msg,    \* the message of the panic that ended the process, else ""
    had_error,    \* VMRuntime.had_error
    out,          \* lines written to standard output, in order
    last,         \* the instruction executed by the latest step, with the
                  \* stack, call frames and globals it started from
    steps         \* the number of instructions VirtualMachine::run has executed

vars == <<source, tokens, statements, position, environment, lox_functions,
          counter, ret, pc, call_frames, stack, globals, id, status, panic_msg,
          had_error, out, last, steps>>

At(seq, i) == seq[i + 1]
Last(seq) == seq[Len(seq)]
Front(seq) == SubSeq(seq, 1, Len(seq) - 1)

-----------------------------------------------------------------------------
(* Values and constants *)

\* A value is a record: k the variant, n its number (the arity of a function,
\* the id of an instance), s its string (the name of a function or class),
\* f the fields of an instance as a set of <<name, value>> pairs.
Number(n) == [k |-> "Number", n |-> n, s |-> "", f |-> {}]
String(s) == [k |-> "String", n |-> 0, s |-> s, f |-> {}]
Bool(b) == [k |-> "Bool", n |-> IF b THEN 1 ELSE 0, s |-> "", f |-> {}]
Nil == [k |-> "Nil", n |-> 0, s |-> "", f |-> {}]
LoxFunc(name, arity) == [k |-> "LoxFunc", n |-> arity, s |-> name, f |-> {}]
NativeFunc(name, arity) == [k |-> "NativeFunc", n |-> arity, s |-> name, f |-> {}]
Class(name) == [k |-> "Class", n |-> 0, s |-> name, f |-> {}]
Instance(i, class, fields) == [k |-> "Instance", n |-> i, s |-> class, f |-> fields]

ConstFunction(f) == [k |-> "Function", fn |-> f]

\* impl From<Constant> for Value
ValueOfConstant(c) ==
    IF c.k = "Function" THEN LoxFunc(c.fn.name, c.fn.arity) ELSE c

\* the cast! macro: the payload of the expected variant, else a panic
CastOk(v, variant) == v.k = variant

-----------------------------------------------------------------------------
(* Tokens *)

NoLiteral == [k |-> "None", n |-> 0, s |-> "", f |-> {}]
\* Token { token_type, lexeme, literal, line }
Token(ty, lexeme, literal, line) ==
    [type |-> ty, lexeme |-> lexeme, literal |-> literal, line |-> line]
T(ty) == Token(ty, ty, NoLiteral, 1)
Id(name) == Token("Identifier", name, NoLiteral, 1)
Num(n) == Token("Number", "number", Number(n), 1)
Str(s) == Token("String", "string", String(s), 1)

-----------------------------------------------------------------------------
(* Scanner *)

\* The source text is a sequence of one-character strings (the scanner
\* slices the text one byte at a time).  A lexeme, a slice of the text, is
\* written as the string it spells: Spelling lists the slices of more than
\* one character that occur in the texts of this model.
Spelling ==
    [print |-> <<"p", "r", "i", "n", "t">>, var |-> <<"v", "a", "r">>,
     nil |-> <<"n", "i", "l">>, true |-> <<"t", "r", "u", "e">>,
     false |-> <<"f", "a", "l", "s", "e">>, ab |-> <<"a", "b">>,
     a1 |-> <<"a", "1">>] @@
    ("12" :> <<"1", "2">>) @@ ("!=" :> <<"!", "=">>) @@ ("==" :> <<"=", "=">>) @@
    ("<=" :> <<"<", "=">>) @@ (">=" :> <<">", "=">>) @@
    ("\"a\"" :> <<"\"", "a", "\"">>) @@ ("\"ab\"" :> <<"\"", "a", "b", "\"">>)

Spell(piece) == IF piece \in DOMAIN Spelling THEN Spelling[piece] ELSE <<piece>>

\* the text made of the given pieces, in order
RECURSIVE Text(_)
Text(pieces) ==
    IF Len(pieces) = 0 THEN <<>> ELSE Spell(pieces[1]) \o Text(Tail(pieces))

\* the string a slice of the text spells
Lexeme(chars) ==
    IF Len(chars) = 0 THEN ""
    ELSE IF Len(chars) = 1 THEN chars[1]
    ELSE CHOOSE t \in DOMAIN Spelling : Spelling[t] = chars

\* source[a..b]
Slice(text, a, b) == SubSeq(text, a + 1, b)

Digits == <<"0", "1", "2", "3", "4", "5", "6", "7", "8", "9">>
Lower ==
    {"a", "b", "c", "d", "e", "f", "g", "h", "i", "j", "k", "l", "m",
     "n", "o", "p", "q", "r", "s", "t", "u", "v", "w", "x", "y", "z"}
Upper ==
    {"A", "B", "C", "D", "E", "F", "G", "H", "I", "J", "K", "L", "M",
     "N", "O", "P", "Q", "R", "S", "T", "U", "V", "W", "X", "Y", "Z"}

is_digit(input) == \E i \in 1..Len(Digits) : Digits[i] = input
is_alpha(input) == input \in Lower \/ input \in Upper \/ input = "_"
is_alpha_numeric(input) == is_alpha(input) \/ is_digit(input)

\* str::parse::<f64> on a run of digits
RECURSIVE parse_digits(_)
parse_digits(chars) ==
    IF Len(chars) = 0 THEN 0
    ELSE 10 * parse_digits(SubSeq(chars, 1, Len(chars) - 1))
         + (CHOOSE d \in 0..9 : Digits[d + 1] = chars[Len(chars)])

\* token::parse_keyword: the token type of a keyword, "None" for any other text
parse_keyword(text) ==
    CASE text = "and" -> "And"
      [] text = "class" -> "Class"
      [] text = "else" -> "Else"
      [] text = "false" -> "False"
      [] text = "for" -> "For"
      [] text = "fun" -> "Fun"
      [] text = "if" -> "If"
      [] text = "nil" -> "Nil"
      [] text = "or" -> "Or"
      [] text = "print" -> "Print"
      [] text = "return" -> "Return"
      [] text = "super" -> "Super"
      [] text = "this" -> "This"
      [] text = "true" -> "True"
      [] text = "var" -> "Var"
      [] text = "while" -> "While"
      [] OTHER -> "None"

\* the messages of the scanner's errors
UnexpectedCharacter == "Unexpected character."
UnterminatedString == "Untermianted string."

\* Scanner::new; err is the result of the scan so far: "ok" (None) or the
\* message of the error it stopped with
NewScanner(data) ==
    [source |-> data, tokens |-> <<>>, start |-> 0, current |-> 0, line |-> 1,
     err |-> "ok"]

is_at_end(s) == s.current >= Len(s.source)
current(s) == At(s.source, s.current)
\* Scanner::peek and Scanner::peek_next: is there a character, and which
peek_is_some(s) == ~is_at_end(s)
peek_next_is_some(s) == ~(s.current + 1 >= Len(s.source))
peek_next(s) == At(s.source, s.current + 1)

\* Scanner::advance: the character it returns is current(s) of the state before
scanner_advance(s) == [s EXCEPT !.current = @ + 1]

\* Scanner::match_next: does it return true (the state then moves on one character)
match_next(s, expect) ==
    IF is_at_end(s) THEN FALSE
    ELSE IF current(s) # expect THEN FALSE
    ELSE TRUE

add_token(s, token_type, literal) ==
    [s EXCEPT !.tokens =
        Append(@, Token(token_type, Lexeme(Slice(s.source, s.start, s.current)),
                        literal, s.line))]

add_token_type(s, token) == add_token(s, token, NoLiteral)

\* the two-character operators: match_next(second), then add_token_type
add_operator(s, second, two, one) ==
    IF match_next(s, second) THEN add_token_type(scanner_advance(s), two)
    ELSE add_token_type(s, one)

\* while self.peek().is_some() && !self.is_at_end() { self.advance(); }
RECURSIVE skip_comment(_)
skip_comment(s) ==
    IF peek_is_some(s) /\ ~is_at_end(s) THEN skip_comment(scanner_advance(s)) ELSE s

\* the loop of Scanner::string
RECURSIVE skip_string(_)
skip_string(s) ==
    IF peek_is_some(s) /\ ~is_at_end(s)
    THEN skip_string(scanner_advance(
            IF current(s) = "\n" THEN [s EXCEPT !.line = @ + 1] ELSE s))
    ELSE s

\* Scanner::string
scanner_string(s) ==
    LET finish(s1) ==
            IF is_at_end(s1) THEN [s1 EXCEPT !.err = UnterminatedString]
            ELSE LET close(s2) ==
                        add_token(s2, "String",
                            String(Lexeme(Slice(s2.source, s2.start + 1, s2.current - 1))))
                 IN close(scanner_advance(s1))
    IN finish(skip_string(s))

RECURSIVE skip_digits(_)
skip_digits(s) ==
    IF peek_is_some(s) /\ is_digit(current(s)) THEN skip_digits(scanner_advance(s)) ELSE s

\* Scanner::number; a number is an integer here: the literal is the value
\* of the digits before the "."
scanner_number(s) ==
    LET whole(s1) ==
            LET fraction(s2) ==
                    add_token(s2, "Number",
                        Number(parse_digits(Slice(s1.source, s1.start, s1.current))))
            IN IF peek_is_some(s1) /\ current(s1) = "."
                    /\ peek_next_is_some(s1) /\ is_digit(peek_next(s1))
               THEN fraction(skip_digits(scanner_advance(s1)))
               ELSE fraction(s1)
    IN whole(skip_digits(s))

RECURSIVE skip_alpha_numeric(_)
skip_alpha_numeric(s) ==
    IF peek_is_some(s) /\ is_alpha_numeric(current(s))
    THEN skip_alpha_numeric(scanner_advance(s)) ELSE s

\* Scanner::identifier
identifier(s) ==
    LET word(s1) ==
            LET ty == parse_keyword(Lexeme(Slice(s1.source, s1.start, s1.current)))
            IN add_token_type(s1, IF ty = "None" THEN "Identifier" ELSE ty)
    IN word(skip_alpha_numeric(s))

\* the arms of Scanner::scan_token for the character c that advance()
\* returned; s is the scanner after that advance
scan_character(s, c) ==
    CASE c = "(" -> add_token_type(s, "LeftParen")
      [] c = ")" -> add_token_type(s, "RightParen")
      [] c = "{" -> add_token_type(s, "LeftBrace")
      [] c = "}" -> add_token_type(s, "RightBrace")
      [] c = "," -> add_token_type(s, "Comma")
      [] c = "." -> add_token_type(s, "Dot")
      [] c = "-" -> add_token_type(s, "Minus")
      [] c = "+" -> add_token_type(s, "Plus")
      [] c = ";" -> add_token_type(s, "Semicolon")
      [] c = "*" -> add_token_type(s, "Star")
      [] c = "!" -> add_operator(s, "=", "BangEqual", "Bang")
      [] c = "=" -> add_operator(s, "=", "EqualEqual", "Equal")
      [] c = "<!>" -> add_operator(s, "", "LessEqual", "Less")
      [] c = ">" -> add_operator(s, "=", "GreaterEqual", "Greater")
      [] c = "/" -> IF match_next(s, "/") THEN skip_comment(scanner_advance(s)) ELSE s
      [] c \in {" ", "\r", "\t"} -> s
      [] c = "\n" -> [s EXCEPT !.line = @ + 1]
      [] c = "\"" -> scanner_string(s)
      [] OTHER ->
            IF is_digit(c) THEN scanner_number(s)
            ELSE IF is_alpha(c) THEN identifier(s)
            ELSE [s EXCEPT !.err = UnexpectedCharacter]

\* Scanner::scan_token
scan_token(s) == scan_character(scanner_advance(s), current(s))

\* Scanner::scan_tokens: the loop stops at the first error, without the
\* Eof token; at the end of the text it appends Eof
RECURSIVE scanner_scan_tokens(_)
scanner_scan_tokens(s) ==
    IF s.err # "ok" THEN s
    ELSE IF ~is_at_end(s)
         THEN scanner_scan_tokens(scan_token([s EXCEPT !.start = s.current]))
         ELSE [s EXCEPT !.tokens = Append(@, Token("Eof", "", NoLiteral, s.line))]

\* scan_tokens: Ok(scanner.tokens) whatever Scanner::scan_tokens returned
scan_tokens(text) == scanner_scan_tokens(NewScanner(text)).tokens

-----------------------------------------------------------------------------
(* Compiler *)

PrecNone == 0
PrecAssignment == 1
PrecOr == 2
PrecAnd == 3
PrecEquality == 4
PrecComparison == 5
PrecTerm == 6
PrecFactor == 7
PrecUnary == 8
PrecCall == 9
PrecPrimary == 10

Rule(prefix, infix, precedence) ==
    [prefix |-> prefix, infix |-> infix, precedence |-> precedence]

get_rule(operator) ==
    CASE operator = "LeftParen" -> Rule("Grouping", "Call", PrecCall)
      [] operator = "Dot" -> Rule("None", "Dot", PrecCall)
      [] operator = "Minus" -> Rule("Unary", "Binary", PrecTerm)
      [] operator = "Plus" -> Rule("None", "Binary", PrecTerm)
      [] operator \in {"Slash", "Star"} -> Rule("None", "Binary", PrecFactor)
      [] operator = "Bang" -> Rule("Unary", "None", PrecNone)
      [] operator \in {"BangEqual", "EqualEqual"} -> Rule("None", "Binary", PrecEquality)
      [] operator \in {"Greater", "GreaterEqual", "Less", "LessEqual"} ->
            Rule("None", "Binary", PrecComparison)
      [] operator = "Identifier" -> Rule("Variable", "None", PrecNone)
      [] operator = "String" -> Rule("String", "None", PrecNone)
      [] operator = "Number" -> Rule("Number", "None", PrecNone)
      [] operator = "And" -> Rule("None", "And", PrecAnd)
      [] operator = "Or" -> Rule("None", "Or", PrecOr)
      [] operator \in {"False", "Nil", "True"} -> Rule("Literal", "None", PrecNone)
      [] operator = "Super" -> Rule("Super", "None", PrecNone)
      [] operator = "This" -> Rule("This", "None", PrecNone)
      [] OTHER -> Rule("None", "None", PrecNone)

\* Precedence::next
PrecNext(p) == p + 1

EmptyFunction == [arity |-> 0, name |-> "", code |-> <<>>, constants |-> <<>>]

\* Compiler::new
NewCompiler(toks) ==
    [tokens |-> toks, current |-> 0, scope_depth |-> 0, locals |-> <<>>,
     function |-> EmptyFunction, err |-> "ok"]

Ok(c) == c.err = "ok"
Fail(c, e) == IF Ok(c) THEN [c EXCEPT !.err = e] ELSE c

Op(name, a) == [op |-> name, a |-> a, s |-> ""]
OpS(name, s) == [op |-> name, a |-> 0, s |-> s]

\* peek() indexes tokens[current]: past the last token (a sequence the
\* scanner left without Eof) the access panics.  Every path of the compiler
\* that has looked at tokens[current] goes on to advance or consume before it
\* returns, so it is there that the panic is raised; until then the token
\* read past the end is PastEnd, which no check matches.
past_end(c) == c.current >= Len(c.tokens)
PastEnd == Token("PastEnd", "", NoLiteral, 0)
peek(c) == IF past_end(c) THEN PastEnd ELSE At(c.tokens, c.current)
at_end(c) == peek(c).type = "Eof"
check(c, ty) == IF at_end(c) THEN FALSE ELSE peek(c).type = ty

\* previous() indexes tokens[current - 1]: with current = 0 the index
\* underflows and the access panics
previous(c) == At(c.tokens, c.current - 1)

advance(c) ==
    IF ~Ok(c) THEN c
    ELSE IF past_end(c) THEN Fail(c, "panic")
    ELSE LET d == IF at_end(c) THEN c ELSE [c EXCEPT !.current = @ + 1]
         IN IF d.current = 0 THEN Fail(d, "panic") ELSE d

consume(c, ty) ==
    IF ~Ok(c) THEN c
    ELSE IF past_end(c) THEN Fail(c, "panic")
    ELSE IF check(c, ty) THEN advance(c)
    ELSE IF c.current = 0 THEN Fail(c, "panic")
    ELSE Fail(c, "TokenMismatch")

emit_opt(c, opt) ==
    IF ~Ok(c) THEN c
    ELSE [c EXCEPT !.function.code =
            Append(@, [op |-> opt.op, a |-> opt.a, s |-> opt.s, line |-> c.current])]

\* Chunk::add_constant: the new constant's index is the old pool length
add_constant(c, val) ==
    IF ~Ok(c) THEN c
    ELSE [c EXCEPT !.function.constants = Append(@, val)]

last_constant(c) == Len(c.function.constants) - 1

emit_constant(c, val) ==
    LET d == add_constant(c, val)
    IN emit_opt(d, Op("OpConstant", last_constant(d)))

emit_return(c) == emit_opt(emit_opt(c, Op("OpNil", 0)), Op("OpReturn", 0))

\* Compiler::end emits nothing
end(c) == c

emit_jump(c, opt) == emit_opt(c, opt)

jump_location(c) == Len(c.function.code) - 1

patch_jump(c, loc) ==
    IF ~Ok(c) THEN c
    ELSE LET true_jump == Len(c.function.code) - loc - 1
             jump == At(c.function.code, loc)
         IN IF jump.op \in {"JumpIfFalse", "Jump"}
            THEN [c EXCEPT !.function.code[loc + 1].a = true_jump]
            ELSE Fail(c, "panic")

\* emit_loop with an offset that is one short
emit_loop_short(c, loop_start) ==
    emit_opt(c, Op("Loop", Len(c.function.code) - loop_start))

emit_loop(c, loop_start) ==
    emit_opt(c, Op("Loop", Len(c.function.code) - loop_start + 1))

begin_scope(c) == IF ~Ok(c) THEN c ELSE [c EXCEPT !.scope_depth = @ + 1]

RECURSIVE pop_locals(_)
pop_locals(c) ==
    IF Len(c.locals) > 0 /\ Last(c.locals).depth > c.scope_depth
    THEN pop_locals([emit_opt(c, Op("OpPop", 0)) EXCEPT !.locals = Front(c.locals)])
    ELSE c

\* end_scope without its loop: the scope's locals stay, no OpPop is emitted
end_scope_keeps_locals(c) ==
    IF ~Ok(c) THEN c
    ELSE IF c.scope_depth = 0 THEN Fail(c, "panic")
    ELSE [c EXCEPT !.scope_depth = @ - 1]

end_scope(c) ==
    IF ~Ok(c) THEN c
    ELSE IF c.scope_depth = 0 THEN Fail(c, "panic")
    ELSE pop_locals([c EXCEPT !.scope_depth = @ - 1])

add_local(c, name) ==
    [c EXCEPT !.locals = Append(@, [name |-> name, depth |-> -1])]

\* the scan of declare_variable: front to back, stopping at the first
\* initialised local of an enclosing scope
RECURSIVE repeat_def(_, _, _)
repeat_def(c, name, i) ==
    IF i > Len(c.locals) THEN FALSE
    ELSE LET l == c.locals[i]
         IN IF l.depth # -1 /\ l.depth < c.scope_depth THEN FALSE
            ELSE IF l.name = name THEN TRUE
            ELSE repeat_def(c, name, i + 1)

declare_variable(c) ==
    IF ~Ok(c) THEN c
    ELSE IF c.scope_depth = 0 THEN c
    ELSE LET name == previous(c).lexeme
         IN IF repeat_def(c, name, 1) THEN Fail(c, "VariableRepeatDef")
            ELSE add_local(c, name)

mark_initialized(c) ==
    IF ~Ok(c) THEN c
    ELSE IF c.scope_depth = 0 THEN c
    ELSE IF Len(c.locals) = 0 THEN Fail(c, "panic")
    ELSE [c EXCEPT !.locals[Len(c.locals)].depth = c.scope_depth]

define_variable(c, val) ==
    IF ~Ok(c) THEN c
    ELSE IF c.scope_depth > 0 THEN mark_initialized(c)
    ELSE emit_opt(c, Op("OpDefineGlobal", val))

\* parse_variable returns the constant index of the name (0 for a local);
\* parse_variable_index reads it off the state parse_variable returns
parse_variable(c) ==
    LET c1 == declare_variable(consume(c, "Identifier"))
    IN IF ~Ok(c1) THEN c1
       ELSE IF c1.scope_depth > 0 THEN c1
       ELSE add_constant(c1, String(previous(c1).lexeme))

parse_variable_index(c) == IF c.scope_depth > 0 THEN 0 ELSE last_constant(c)

\* resolve_local: -1 for None, -2 for the error of reading a local in its
\* own initialiser, else the index of the innermost local of that name
\* resolve_local without the test for a local that is not yet initialised
RECURSIVE resolve_from_any_depth(_, _, _)
resolve_from_any_depth(c, name, i) ==
    IF i = 0 THEN -1
    ELSE IF c.locals[i].name = name THEN i - 1
    ELSE resolve_from_any_depth(c, name, i - 1)

RECURSIVE resolve_from(_, _, _)
resolve_from(c, name, i) ==
    IF i = 0 THEN -1
    ELSE IF c.locals[i].name = name
         THEN IF c.locals[i].depth = -1 THEN -2 ELSE i - 1
         ELSE resolve_from(c, name, i - 1)

resolve_local(c, name) == resolve_from(c, name, Len(c.locals))


RECURSIVE declaration(_), statement(_), block(_), function(_), parameters(_),
          var_declaration(_), fun_declaration(_), class_declaration(_),
          return_statement(_), for_statement(_), while_statement(_),
          if_statement(_), expression_statement(_), expression(_),
          parse_precedence(_, _), infix_loop(_, _, _), apply_parse_fn(_, _, _),
          argument(_), arguments(_, _), argument_list(_, _), call(_), and_(_),
          or_(_), dot(_, _),
          named_variable(_, _, _), unary(_), binary(_), grouping(_)

\* the opcodes a binary (or, unreachably, unary) operator token emits
emit_operator(c, token_type) ==
    CASE token_type = "Slash" -> emit_opt(c, Op("OpDivide", 0))
      [] token_type = "Star" -> emit_opt(c, Op("OpMultiply", 0))
      [] token_type = "Minus" -> emit_opt(c, Op("OpSubtract", 0))
      [] token_type = "Plus" -> emit_opt(c, Op("OpAdd", 0))
      [] token_type = "BangEqual" ->
            emit_opt(emit_opt(c, Op("OpEqual", 0)), Op("OpNot", 0))
      [] token_type = "EqualEqual" -> emit_opt(c, Op("OpEqual", 0))
      [] token_type = "Greater" -> emit_opt(c, Op("OpGreater", 0))
      [] token_type = "GreaterEqual" ->
            emit_opt(emit_opt(c, Op("OpLess", 0)), Op("OpNot", 0))
      [] token_type = "Less" -> emit_opt(c, Op("OpLess", 0))
      [] token_type = "LessEqual" ->
            emit_opt(emit_opt(c, Op("OpGreater", 0)), Op("OpNot", 0))
      [] OTHER -> Fail(c, "panic")

\* binary with the right operand parsed at the operator's own precedence
binary_same_precedence(c) ==
    IF ~Ok(c) THEN c
    ELSE emit_operator(parse_precedence(c, get_rule(previous(c).type).precedence),
                       previous(c).type)

binary(c) ==
    IF ~Ok(c) THEN c
    ELSE LET token_type == previous(c).type
             rule == get_rule(token_type)
         IN emit_operator(parse_precedence(c, PrecNext(rule.precedence)), token_type)

\* the operand of a unary operator is a whole expression()
unary(c) ==
    IF ~Ok(c) THEN c
    ELSE LET token_type == previous(c).type
             emit(c1) ==
                CASE token_type = "Minus" -> emit_opt(c1, Op("OpNegate", 0))
                  [] token_type = "Bang" -> emit_opt(c1, Op("OpNot", 0))
                  [] token_type \in {"BangEqual", "EqualEqual", "Greater",
                                     "GreaterEqual", "Less", "LessEqual"} ->
                        emit_operator(c1, token_type)
                  [] OTHER -> c1
         IN emit(expression(c))

number(c) ==
    IF ~Ok(c) THEN c
    ELSE IF previous(c).literal.k = "Number"
         THEN emit_constant(c, previous(c).literal)
         ELSE Fail(c, "panic")

string(c) ==
    IF ~Ok(c) THEN c
    ELSE IF previous(c).type = "String"
         THEN IF previous(c).literal.k = "String"
              THEN LET d == add_constant(c, previous(c).literal)
                   IN emit_opt(d, Op("OpConstant", last_constant(d)))
              ELSE Fail(c, "panic")
         ELSE Fail(c, "Common")

literal(c) ==
    IF ~Ok(c) THEN c
    ELSE CASE previous(c).type = "False" -> emit_opt(c, Op("OpFalse", 0))
           [] previous(c).type = "Nil" -> emit_opt(c, Op("OpNil", 0))
           [] previous(c).type = "True" -> emit_opt(c, Op("OpTrue", 0))
           [] OTHER -> Fail(c, "panic")

grouping(c) == consume(expression(c), "RightParen")

named_variable(c, name, can_assign) ==
    IF ~Ok(c) THEN c
    ELSE LET r == resolve_local(c, name)
         IN IF r = -2 THEN Fail(c, "Common")
            ELSE IF r = -1
            THEN LET c1 == add_constant(c, String(name))
                     index == last_constant(c1)
                 IN IF can_assign /\ check(c1, "Equal")
                    THEN emit_opt(expression(advance(c1)), Op("OpSetGlobal", index))
                    ELSE emit_opt(c1, Op("OpGetGlobal", index))
            ELSE IF can_assign /\ check(c, "Equal")
                 THEN emit_opt(expression(advance(c)), Op("OpSetLocal", r))
                 ELSE emit_opt(c, Op("OpGetLocal", r))

variable(c, can_assign) ==
    IF ~Ok(c) THEN c ELSE named_variable(c, previous(c).lexeme, can_assign)

and_(c) ==
    IF ~Ok(c) THEN c
    ELSE LET c1 == emit_jump(c, Op("JumpIfFalse", 0))
             end_jump == jump_location(c1)
         IN patch_jump(parse_precedence(emit_opt(c1, Op("OpPop", 0)), PrecAnd), end_jump)

or_(c) ==
    IF ~Ok(c) THEN c
    ELSE LET c1 == emit_jump(c, Op("JumpIfFalse", 0))
             else_jump == jump_location(c1)
             c2 == emit_jump(c1, Op("Jump", 0))
             end_jump == jump_location(c2)
             c3 == emit_opt(patch_jump(c2, else_jump), Op("OpPop", 0))
         IN patch_jump(parse_precedence(c3, PrecOr), end_jump)

\* one pass of the loop of argument_list: an argument, counted, and the test
\* for the comma of a further one
argument(r) ==
    IF r.done THEN r
    ELSE LET more(c1) ==
                IF Ok(c1) /\ check(c1, "Comma")
                THEN [c |-> advance(c1), count |-> r.count + 1, done |-> FALSE]
                ELSE [c |-> c1, count |-> r.count + 1, done |-> TRUE]
         IN more(expression(r.c))

\* the loop of argument_list: passes until the break, at most n of them; the
\* passes are taken in two halves, so that a list of n arguments nests the
\* evaluation to the logarithm of n
arguments(r, n) ==
    IF r.done \/ n = 0 THEN r
    ELSE IF n = 1 THEN argument(r)
    ELSE LET rest(half) == arguments(half, n - n \div 2)
         IN rest(arguments(r, n \div 2))

\* argument_list: the state after the arguments, and their count; a pass
\* takes a token at least, so there are no more passes than tokens
argument_list(c, count) ==
    IF ~Ok(c) THEN [c |-> c, count |-> count]
    ELSE arguments([c |-> c, count |-> count, done |-> FALSE], Len(c.tokens))

call(c) ==
    IF ~Ok(c) THEN c
    ELSE LET emit(r) == emit_opt(consume(r.c, "RightParen"), Op("Call", r.count))
         IN emit(IF check(c, "RightParen") THEN [c |-> c, count |-> 0]
                 ELSE argument_list(c, 0))

dot(c, can_assign) ==
    IF ~Ok(c) THEN c
    ELSE LET c1 == consume(c, "Identifier")
         IN IF ~Ok(c1) THEN c1
            ELSE LET property_name == previous(c1).lexeme
                 IN IF can_assign /\ check(c1, "Equal")
                    THEN emit_opt(expression(advance(c1)),
                                  OpS("OpSetProperty", property_name))
                    ELSE emit_opt(c1, OpS("OpGetProperty", property_name))

apply_parse_fn(c, parse_fn, can_assign) ==
    CASE parse_fn = "Grouping" -> grouping(c)
      [] parse_fn = "Unary" -> unary(c)
      [] parse_fn = "Binary" -> binary(c)
      [] parse_fn = "Number" -> number(c)
      [] parse_fn = "Literal" -> literal(c)
      [] parse_fn = "String" -> string(c)
      [] parse_fn = "Variable" -> variable(c, can_assign)
      [] parse_fn = "And" -> and_(c)
      [] parse_fn = "Or" -> or_(c)
      [] parse_fn = "Call" -> call(c)
      [] parse_fn = "Dot" -> dot(c, can_assign)
      [] OTHER -> Fail(c, "panic")

\* the while loop of parse_precedence over the infix rules
infix_loop(c, precedence, can_assign) ==
    IF ~Ok(c) THEN c
    ELSE IF precedence <= get_rule(peek(c).type).precedence
    THEN LET c1 == advance(c)
             infix == get_rule(previous(c1).type).infix
         IN IF ~Ok(c1) THEN c1
            ELSE IF infix = "None" THEN Fail(c1, "panic")
            ELSE infix_loop(apply_parse_fn(c1, infix, can_assign), precedence, can_assign)
    ELSE c

parse_precedence(c, precedence) ==
    IF ~Ok(c) THEN c
    ELSE LET can_assign == precedence <= PrecAssignment
             \* after the infix loop: a leftover '=' is an invalid target
             target(c3) ==
                IF Ok(c3) /\ can_assign /\ check(c3, "Equal")
                THEN Fail(advance(c3), "panic")
                ELSE c3
             \* after advance(): the prefix rule of the previous token
             prefix(c1) ==
                IF ~Ok(c1) THEN c1
                ELSE IF get_rule(previous(c1).type).prefix = "None"
                THEN Fail(c1, "UnexpectedToken")
                ELSE target(infix_loop(
                        apply_parse_fn(c1, get_rule(previous(c1).type).prefix, can_assign),
                        precedence, can_assign))
         IN prefix(advance(c))

expression(c) == parse_precedence(c, PrecAssignment)

expression_statement(c) ==
    emit_opt(consume(expression(c), "Semicolon"), Op("OpPop", 0))

return_statement(c) ==
    IF ~Ok(c) THEN c
    ELSE IF check(c, "Semicolon") THEN emit_return(advance(c))
    ELSE emit_opt(consume(expression(c), "Semicolon"), Op("OpReturn", 0))

if_statement(c) ==
    IF ~Ok(c) THEN c
    ELSE LET \* c5: after the then branch is closed; else_jump is to be patched
             else_branch(c5, else_jump) ==
                patch_jump(IF Ok(c5) /\ check(c5, "Else")
                           THEN statement(advance(c5)) ELSE c5,
                           else_jump)
             \* c4: after the Jump over the else branch is emitted
             then_end(c4, then_jump) ==
                else_branch(emit_opt(patch_jump(c4, then_jump), Op("OpPop", 0)),
                            jump_location(c4))
             \* c2: after the JumpIfFalse over the then branch is emitted
             then_branch(c2) ==
                then_end(emit_jump(statement(emit_opt(c2, Op("OpPop", 0))), Op("Jump", 0)),
                         jump_location(c2))
         IN then_branch(emit_jump(
                consume(expression(consume(c, "LeftParen")), "RightParen"),
                Op("JumpIfFalse", 0)))

\* while_statement without the OpPop of the condition before the body
while_statement_keeps_condition(c) ==
    IF ~Ok(c) THEN c
    ELSE LET loop_start == Len(c.function.code)
             body(c2) ==
                emit_opt(patch_jump(emit_loop(statement(c2), loop_start),
                                    jump_location(c2)),
                         Op("OpPop", 0))
         IN body(emit_jump(
                consume(expression(consume(c, "LeftParen")), "RightParen"),
                Op("JumpIfFalse", 0)))

while_statement(c) ==
    IF ~Ok(c) THEN c
    ELSE LET loop_start == Len(c.function.code)
             \* c2: after the exit JumpIfFalse is emitted
             body(c2) ==
                emit_opt(patch_jump(emit_loop(statement(emit_opt(c2, Op("OpPop", 0))),
                                              loop_start),
                                    jump_location(c2)),
                         Op("OpPop", 0))
         IN body(emit_jump(
                consume(expression(consume(c, "LeftParen")), "RightParen"),
                Op("JumpIfFalse", 0)))

for_statement(c) ==
    IF ~Ok(c) THEN c
    ELSE LET \* the body, the Loop back, the exit jump's patch, end_scope
             body(c4, loop_start, has_condition, exit_jump) ==
                end_scope(IF has_condition
                          THEN emit_opt(patch_jump(emit_loop(statement(c4), loop_start),
                                                   exit_jump),
                                        Op("OpPop", 0))
                          ELSE emit_loop(statement(c4), loop_start))
             \* c4j: after the Jump over the increment clause is emitted
             increment(c4j, loop_start, has_condition, exit_jump) ==
                body(patch_jump(
                        emit_loop(consume(emit_opt(expression(c4j), Op("OpPop", 0)),
                                          "RightParen"),
                                  loop_start),
                        jump_location(c4j)),
                     Len(c4j.function.code), has_condition, exit_jump)
             \* c3: after the condition clause
             clauses(c3, loop_start, has_condition, exit_jump) ==
                IF Ok(c3) /\ ~check(c3, "RightParen")
                THEN increment(emit_jump(c3, Op("Jump", 0)),
                               loop_start, has_condition, exit_jump)
                ELSE body(advance(c3), loop_start, has_condition, exit_jump)
             \* c3j: after the exit JumpIfFalse of the condition is emitted
             condition(c3j, loop_start) ==
                clauses(emit_opt(c3j, Op("OpPop", 0)), loop_start, TRUE, jump_location(c3j))
             \* c2: after the initializer clause
             loop(c2) ==
                IF Ok(c2) /\ ~check(c2, "Semicolon")
                THEN condition(emit_jump(consume(expression(c2), "Semicolon"),
                                         Op("JumpIfFalse", 0)),
                               Len(c2.function.code))
                ELSE clauses(advance(c2), Len(c2.function.code), FALSE, 0)
             \* c1: after '('
             initializer(c1) ==
                IF ~Ok(c1) THEN c1
                ELSE IF check(c1, "Semicolon") THEN advance(c1)
                ELSE IF check(c1, "Var") THEN var_declaration(advance(c1))
                ELSE expression_statement(c1)
         IN loop(initializer(consume(begin_scope(c), "LeftParen")))

block(c) ==
    IF ~Ok(c) THEN c
    ELSE IF ~check(c, "RightBrace") /\ ~check(c, "Eof")
    THEN block(declaration(c))
    ELSE consume(c, "RightBrace")

statement(c) ==
    IF ~Ok(c) THEN c
    ELSE IF check(c, "Print")
    THEN emit_opt(consume(expression(advance(c)), "Semicolon"), Op("OpPrint", 0))
    ELSE IF check(c, "For") THEN for_statement(advance(c))
    ELSE IF check(c, "If") THEN if_statement(advance(c))
    ELSE IF check(c, "Return") THEN return_statement(advance(c))
    ELSE IF check(c, "While") THEN while_statement(advance(c))
    ELSE IF check(c, "LeftBrace") THEN end_scope(block(begin_scope(advance(c))))
    ELSE expression_statement(c)

var_declaration(c) ==
    IF ~Ok(c) THEN c
    ELSE LET initializer(c1) ==
                define_variable(
                    consume(IF ~Ok(c1) THEN c1
                            ELSE IF check(c1, "Equal") THEN expression(advance(c1))
                            ELSE emit_opt(c1, Op("OpNil", 0)),
                            "Semicolon"),
                    parse_variable_index(c1))
         IN initializer(parse_variable(c))

\* the parameter loop of Compiler::function
parameters(c) ==
    IF ~Ok(c) THEN c
    ELSE LET define(c1) == define_variable(c1, parse_variable_index(c1))
             more(c2) == IF Ok(c2) /\ check(c2, "Comma") THEN parameters(advance(c2)) ELSE c2
         IN more(define(parse_variable([c EXCEPT !.function.arity = @ + 1])))

\* the body is compiled by a fresh compiler over the same tokens; the
\* finished Function becomes a constant of the enclosing chunk
function(c) ==
    IF ~Ok(c) THEN c
    ELSE LET compiler == [tokens |-> c.tokens, current |-> c.current,
                          scope_depth |-> 0, locals |-> <<>>,
                          function |-> [EmptyFunction EXCEPT !.name = previous(c).lexeme],
                          err |-> "ok"]
             params(d1) == IF Ok(d1) /\ ~check(d1, "RightParen") THEN parameters(d1) ELSE d1
             finish(d4) ==
                IF ~Ok(d4) THEN Fail(c, d4.err)
                ELSE [emit_constant(c, ConstFunction(d4.function))
                        EXCEPT !.current = d4.current]
         IN finish(emit_return(block(
                consume(consume(params(consume(begin_scope(compiler), "LeftParen")),
                                "RightParen"),
                        "LeftBrace"))))

fun_declaration(c) ==
    IF ~Ok(c) THEN c
    ELSE LET body(c1) ==
                define_variable(function(mark_initialized(c1)), parse_variable_index(c1))
         IN body(parse_variable(c))

class_declaration(c) ==
    IF ~Ok(c) THEN c
    ELSE LET c1 == consume(c, "Identifier")
         IN IF ~Ok(c1) THEN c1
            ELSE LET class_name == previous(c1).lexeme
                     c2 == add_constant(c1, String(class_name))
                     constant_index == last_constant(c2)
                     c3 == emit_opt(declare_variable(c2), OpS("OpClass", class_name))
                     c4 == define_variable(c3, constant_index)
                 IN consume(consume(c4, "LeftBrace"), "RightBrace")

declaration(c) ==
    IF ~Ok(c) THEN c
    ELSE IF check(c, "Class") THEN class_declaration(advance(c))
    ELSE IF check(c, "Fun") THEN fun_declaration(advance(c))
    ELSE IF check(c, "Var") THEN var_declaration(advance(c))
    ELSE statement(c)

RECURSIVE compile_loop(_)
compile_loop(c) ==
    IF ~Ok(c) THEN c
    ELSE IF ~at_end(c) THEN compile_loop(declaration(c))
    ELSE c

\* Compiler::compile: Ok(function) when err = "ok"
compile(c) == end(compile_loop(c))

-----------------------------------------------------------------------------
(* Virtual machine *)

\* the lines written to standard output: by OpPrint, by the dump of the
\* stack after a run, by VMRuntime::report
PrintLine(v) == [kind |-> "print", i |-> 0, v |-> v]
StackLine(i, v) == [kind |-> "stack", i |-> i, v |-> v]
ErrorLine(e) == [kind |-> "error", i |-> 0, v |-> String(e)]

\* The machine as one record m: call_frames, stack, globals, id, out, and
\* res, the result of the step so far: "ok" (Ok(())), "err" (an Err result)
\* or "panic" (msg is then the panic's message).  Every helper leaves a
\* machine whose res is not "ok" alone.

Running(m) == m.res = "ok"
\* the messages of the panics the machine can end with
PopEmpty == "attempted to pop empty stack!"
IndexOutOfBounds == "index out of bounds"
SubOverflow == "attempt to subtract with overflow"
CastMismatch == "mismatch variant when cast"

Panic(m, msg) == IF Running(m) THEN [m EXCEPT !.res = "panic", !.msg = msg] ELSE m
Error(m) == IF Running(m) THEN [m EXCEPT !.res = "err"] ELSE m

frame(m) == Last(m.call_frames)

push(m, var) == IF ~Running(m) THEN m ELSE [m EXCEPT !.stack = Append(@, var)]

\* VirtualMachine::pop: panics on an empty stack
pop(m) ==
    IF ~Running(m) THEN m
    ELSE IF Len(m.stack) = 0 THEN Panic(m, PopEmpty)
    ELSE [m EXCEPT !.stack = Front(@)]

RECURSIVE pop_stack_n_times(_, _)
pop_stack_n_times(m, num_to_pop) ==
    IF ~Running(m) \/ num_to_pop = 0 THEN m
    ELSE pop_stack_n_times(pop(m), num_to_pop - 1)

\* VirtualMachine::peek
peek_ok(m, n) == Len(m.stack) - 1 - n >= 0
peek_at(m, n) == At(m.stack, Len(m.stack) - 1 - n)

is_done(m) ==
    Len(m.call_frames) = 0 \/ frame(m).ip >= Len(frame(m).function.code)

\* impl PartialEq for Value
value_eq(a, b) ==
    CASE a.k = "Number" -> b.k = "Number" /\ a.n = b.n /\ a.s = b.s /\ a.s # "NaN"
      [] a.k = "String" -> b.k = "String" /\ a.s = b.s
      [] a.k = "Bool" -> b.k = "Bool" /\ a.n = b.n
      [] a.k = "Nil" -> b.k = "Nil"
      [] OTHER -> FALSE

\* the strings of the programs below in byte-wise lexicographic order
Lexicon == <<"", "!", "A", "B", "a", "ab", "abc", "b", "c", "hi", "hi!", "x">>
Rank(s) == CHOOSE i \in 1..Len(Lexicon) : Lexicon[i] = s

\* impl PartialOrd for Value: "lt", "gt", "eq" or "none"
partial_cmp(a, b) ==
    CASE a.k = "Number" /\ b.k = "Number" ->
            IF a.n < b.n THEN "lt" ELSE IF a.n > b.n THEN "gt" ELSE "eq"
      [] a.k = "String" /\ b.k = "String" ->
            IF Rank(a.s) < Rank(b.s) THEN "lt"
            ELSE IF Rank(a.s) > Rank(b.s) THEN "gt" ELSE "eq"
      [] OTHER -> "none"

\* y / x on f64: a zero divisor gives an infinity or NaN, carried in s
divide(y, x) ==
    IF x = 0
    THEN [Number(0) EXCEPT !.s = IF y = 0 THEN "NaN" ELSE IF y > 0 THEN "inf" ELSE "-inf"]
    ELSE Number(y \div x)

binary_opt(m, opt) ==
    LET x == peek_at(m, 0)
        y == peek_at(m, 1)
        m2 == pop(pop(m))
    IN IF ~Running(m2) THEN m2
       ELSE IF x.k = "Number"
       THEN IF y.k = "Number"
            THEN CASE opt = "OpAdd" -> push(m2, Number(x.n + y.n))
                   [] opt = "OpSubtract" -> push(m2, Number(y.n - x.n))
                   [] opt = "OpMultiply" -> push(m2, Number(y.n * x.n))
                   [] opt = "OpDivide" -> push(m2, divide(y.n, x.n))
                   [] OTHER -> Panic(m2, "type not equal")
            ELSE Panic(m2, "type not equal")
       ELSE IF x.k = "String"
       THEN IF y.k = "String" THEN push(m2, String(y.s \o x.s)) ELSE Panic(m2, "type not equal")
       ELSE Panic(m2, "not support binary opt")

\* HashMap::insert on globals
insert(g, key, value) ==
    [n \in DOMAIN g \cup {key} |-> IF n = key THEN value ELSE g[n]]

\* HashMap::insert on the fields of an instance
insert_field(fields, name, val) ==
    {p \in fields : p[1] # name} \cup {<<name, val>>}

has_field(fields, name) == \E p \in fields : p[1] = name
get_field(fields, name) == (CHOOSE p \in fields : p[1] = name)[2]

\* VirtualMachine::update_ref: the instances of that id held directly in
\* globals get the new fields, those held directly on the stack are replaced
update_ref(m, val) ==
    IF ~Running(m) THEN m
    ELSE [m EXCEPT
            !.globals = [n \in DOMAIN @ |->
                            IF @[n].k = "Instance" /\ @[n].n = val.n
                            THEN [@[n] EXCEPT !.f = val.f] ELSE @[n]],
            !.stack = [i \in DOMAIN @ |->
                            IF @[i].k = "Instance" /\ @[i].n = val.n
                            THEN val ELSE @[i]]]

\* the first Function constant of that name in the chunk, if any
RECURSIVE find_in_constants(_, _, _)
find_in_constants(constants, name, i) ==
    IF i > Len(constants) THEN 0
    ELSE IF constants[i].k = "Function" /\ constants[i].fn.name = name THEN i
    ELSE find_in_constants(constants, name, i + 1)

\* VirtualMachine::find_function: searches the constants of the functions of
\* the live call frames, innermost frame first; 0 for None, else <<frame, constant>>
RECURSIVE find_function_from(_, _, _)
find_function_from(m, name, i) ==
    IF i = 0 THEN <<0, 0>>
    ELSE LET j == find_in_constants(m.call_frames[i].function.constants, name, 1)
         IN IF j # 0 THEN <<i, j>> ELSE find_function_from(m, name, i - 1)

find_function(m, name) == find_function_from(m, name, Len(m.call_frames))

\* builtins::clock and builtins::sleep; now is the reading of the system clock
native(m, name, values, now) ==
    CASE name = "clock" -> push(m, Number(now))
      [] name = "sleep" ->
            IF CastOk(values[1], "Number") THEN push(m, Nil) ELSE Panic(m, CastMismatch)
      [] OTHER -> Panic(m, "can't call")

\* VirtualMachine::call
call_value(m, callee, arg_count, now) ==
    IF ~Running(m) THEN m
    ELSE CASE callee.k = "Class" ->
                LET index == Len(m.stack) - 1 - arg_count
                IN [m EXCEPT !.id = @ + 1,
                             !.stack[index + 1] = Instance(m.id + 1, callee.s, {})]
           [] callee.k = "LoxFunc" ->
                LET found == find_function(m, callee.s)
                IN IF found[1] = 0 THEN Panic(m, "Cannot call not function type")
                   ELSE [m EXCEPT !.call_frames = Append(@,
                            [function |-> m.call_frames[found[1]].function.constants[found[2]].fn,
                             ip |-> 0,
                             slots_offset |-> Len(m.stack) - arg_count])]
           [] callee.k = "NativeFunc" ->
                LET m1 == pop_stack_n_times(m, callee.n)
                    values == IF Running(m1)
                              THEN SubSeq(m.stack, Len(m.stack) - callee.n + 1, Len(m.stack))
                              ELSE <<>>
                IN native(pop(m1), callee.s, values, now)
           [] OTHER -> Panic(m, "can't call")

\* the constant K[idx] of the current frame as a global's name: cast! to String
read_constant(m, idx) == At(frame(m).function.constants, idx)

add_ip(m, delta) ==
    IF ~Running(m) THEN m
    ELSE [m EXCEPT !.call_frames[Len(m.call_frames)].ip = @ + delta]

\* OpReturn.  checked: the build checks usize arithmetic for overflow (a
\* debug build panics where a release build wraps).
op_return(m, checked) ==
    LET m2 == pop(m)
    IN IF ~Running(m2) THEN m2
       ELSE LET result == peek_at(m, 0)
            IN IF Len(m2.call_frames) <= 1
               THEN [m2 EXCEPT !.call_frames = Front(@)]
               ELSE LET diff == Len(m2.stack) - frame(m2).slots_offset
                        num_to_pop == diff + frame(m2).function.arity
                    IN IF checked /\ diff < 0 THEN Panic(m2, SubOverflow)
                       ELSE IF num_to_pop < 0 THEN Panic(m2, PopEmpty)
                       ELSE push(pop_stack_n_times(
                                    [m2 EXCEPT !.call_frames = Front(@)], num_to_pop),
                                 result)

op_not(m) ==
    LET m2 == pop(m)
    IN IF ~Running(m2) THEN m2
       ELSE LET v == peek_at(m, 0)
            IN CASE v.k = "Bool" -> push(m2, Bool(v.n = 0))
                 [] v.k = "Nil" -> push(m2, Bool(TRUE))
                 [] OTHER -> Panic(m2, "not execute opt not")

op_negate(m) ==
    LET m2 == pop(m)
    IN IF ~Running(m2) THEN m2
       ELSE IF peek_at(m, 0).k = "Number"
            THEN push(m2, [peek_at(m, 0) EXCEPT !.n = 0 - @])
            ELSE Panic(m2, "can't negate")

\* OpEqual, OpGreater, OpLess: a is popped first, then b
op_compare(m, op) ==
    LET m2 == pop(pop(m))
    IN IF ~Running(m2) THEN m2
       ELSE LET a == peek_at(m, 0)
                b == peek_at(m, 1)
            IN CASE op = "OpEqual" -> push(m2, Bool(value_eq(a, b)))
                 [] op = "OpGreater" -> push(m2, Bool(partial_cmp(b, a) = "gt"))
                 [] op = "OpLess" -> push(m2, Bool(partial_cmp(b, a) = "lt"))

op_jump_if_false(m, jump, checked) ==
    IF Len(m.stack) = 0
    THEN Panic(m, IF checked THEN SubOverflow ELSE IndexOutOfBounds)
    ELSE IF ~CastOk(Last(m.stack), "Bool") THEN Panic(m, CastMismatch)
    ELSE IF Last(m.stack).n = 0 THEN add_ip(m, jump) ELSE m

op_get_local(m, index) ==
    LET slot == frame(m).slots_offset + index
    IN IF slot >= Len(m.stack) THEN Panic(m, IndexOutOfBounds) ELSE push(m, At(m.stack, slot))

op_set_local(m, index) ==
    LET slot == frame(m).slots_offset + index
    IN IF Len(m.stack) = 0 THEN Panic(m, "expect last")
       ELSE IF slot >= Len(m.stack) THEN Panic(m, IndexOutOfBounds)
       ELSE [m EXCEPT !.stack[slot + 1] = Last(m.stack)]

op_define_global(m, index) ==
    LET m2 == pop(m)
    IN IF ~Running(m2) THEN m2
       ELSE IF ~CastOk(read_constant(m, index), "String") THEN Panic(m2, CastMismatch)
       ELSE [m2 EXCEPT !.globals = insert(@, read_constant(m, index).s, peek_at(m, 0))]

op_get_global(m, index) ==
    IF ~CastOk(read_constant(m, index), "String") THEN Panic(m, CastMismatch)
    ELSE IF read_constant(m, index).s \notin DOMAIN m.globals THEN Panic(m, "not found in globals")
    ELSE push(m, m.globals[read_constant(m, index).s])

op_set_global(m, index) ==
    IF ~CastOk(read_constant(m, index), "String") THEN Panic(m, CastMismatch)
    ELSE IF Len(m.stack) = 0 THEN Panic(m, "expect last")
    ELSE [m EXCEPT !.globals = insert(@, read_constant(m, index).s, Last(m.stack))]

op_call(m, args_count, checked, now) ==
    IF Len(m.stack) - args_count - 1 < 0
    THEN Panic(m, IF checked THEN SubOverflow ELSE "should exit")
    ELSE call_value(m, At(m.stack, Len(m.stack) - args_count - 1), args_count, now)

op_set_property(m, name) ==
    IF ~peek_ok(m, 1) THEN Panic(m, IndexOutOfBounds)
    ELSE IF ~CastOk(peek_at(m, 1), "Instance") THEN Panic(m, CastMismatch)
    ELSE LET val == peek_at(m, 0)
             instance == [peek_at(m, 1) EXCEPT !.f = insert_field(@, name, val)]
         IN update_ref(push(pop(pop(m)), val), instance)

op_get_property(m, name) ==
    IF ~peek_ok(m, 0) THEN Panic(m, IndexOutOfBounds)
    ELSE IF ~CastOk(peek_at(m, 0), "Instance") THEN Panic(m, CastMismatch)
    ELSE IF has_field(peek_at(m, 0).f, name)
         THEN push(pop(m), get_field(peek_at(m, 0).f, name))
         ELSE Error(m)

\* VirtualMachine::step: fetch the instruction at ip, advance ip, execute
step(m, checked, now) ==
    LET opt == At(frame(m).function.code, frame(m).ip)
        m1 == add_ip(m, 1)
    IN CASE opt.op = "OpReturn" -> op_return(m1, checked)
         [] opt.op = "OpNegate" -> op_negate(m1)
         [] opt.op = "OpConstant" -> push(m1, ValueOfConstant(read_constant(m1, opt.a)))
         [] opt.op \in {"OpAdd", "OpSubtract", "OpMultiply", "OpDivide"} ->
                binary_opt(m1, opt.op)
         [] opt.op = "OpNil" -> push(m1, Nil)
         [] opt.op = "OpTrue" -> push(m1, Bool(TRUE))
         [] opt.op = "OpFalse" -> push(m1, Bool(FALSE))
         [] opt.op = "OpNot" -> op_not(m1)
         [] opt.op \in {"OpEqual", "OpGreater", "OpLess"} -> op_compare(m1, opt.op)
         [] opt.op = "OpPrint" ->
                IF ~Running(pop(m1)) THEN pop(m1)
                ELSE [pop(m1) EXCEPT !.out = Append(@, PrintLine(Last(m1.stack)))]
         [] opt.op = "OpPop" -> pop(m1)
         [] opt.op = "OpDefineGlobal" -> op_define_global(m1, opt.a)
         [] opt.op = "OpGetGlobal" -> op_get_global(m1, opt.a)
         [] opt.op = "OpSetGlobal" -> op_set_global(m1, opt.a)
         [] opt.op = "OpGetLocal" -> op_get_local(m1, opt.a)
         [] opt.op = "OpSetLocal" -> op_set_local(m1, opt.a)
         [] opt.op = "JumpIfFalse" -> op_jump_if_false(m1, opt.a, checked)
         [] opt.op = "Jump" -> add_ip(m1, opt.a)
         [] opt.op = "Loop" -> add_ip(m1, 0 - opt.a)
         [] opt.op = "Call" -> op_call(m1, opt.a, checked, now)
         [] opt.op = "OpClass" -> push(m1, Class(opt.s))
         [] opt.op = "OpSetProperty" -> op_set_property(m1, opt.s)
         [] opt.op = "OpGetProperty" -> op_get_property(m1, opt.s)

-----------------------------------------------------------------------------
(* Tree-walking interpreter *)

\* Expression and Statement (types/expr.rs), as the parser builds them
Literal(v) == [e |-> "Literal", v |-> v, name |-> "", of |-> <<>>]
Unary(opt, exp) == [e |-> "Unary", v |-> Nil, name |-> opt, of |-> <<exp>>]
Variable(name) == [e |-> "Variable", v |-> Nil, name |-> name, of |-> <<>>]
Assign(name, exp) == [e |-> "Assign", v |-> Nil, name |-> name, of |-> <<exp>>]
\* of: the callee, then the arguments
Call(callee, args) == [e |-> "Call", v |-> Nil, name |-> "", of |-> <<callee>> \o args]
\* the None of an Option<Expression>
NoExpression == [e |-> "None", v |-> Nil, name |-> "", of |-> <<>>]

ExpressionStatement(exp) ==
    [st |-> "Expression", name |-> "", exp |-> exp, params |-> <<>>, of |-> <<>>]
PrintStatement(exp) ==
    [st |-> "Print", name |-> "", exp |-> exp, params |-> <<>>, of |-> <<>>]
VarStatement(name, exp) ==
    [st |-> "Var", name |-> name, exp |-> exp, params |-> <<>>, of |-> <<>>]
Block(sts) ==
    [st |-> "Block", name |-> "", exp |-> NoExpression, params |-> <<>>, of |-> sts]
\* of: the then branch, and the else branch if there is one
If(condition, branches) ==
    [st |-> "If", name |-> "", exp |-> condition, params |-> <<>>, of |-> branches]
While(condition, body) ==
    [st |-> "While", name |-> "", exp |-> condition, params |-> <<>>, of |-> <<body>>]
\* exp is NoExpression for return;
Return(exp) ==
    [st |-> "Return", name |-> "", exp |-> exp, params |-> <<>>, of |-> <<>>]
\* the body is the Block the parser's block() returned
Function(name, params, body) ==
    [st |-> "Function", name |-> name, exp |-> NoExpression, params |-> params,
     of |-> <<body>>]

\* LoxFunc(name, id) of types/val.rs
LoxFunction(name, func_id) == [k |-> "LoxFunc", n |-> func_id, s |-> name, f |-> {}]

\* Environment (process/environment.rs): values and, boxed, a copy of the
\* enclosing environment.  An environment is the sequence of the values maps
\* from the outermost one to its own, which is the last.
NoValues == [n \in {} |-> Nil]
DefaultEnvironment == <<NoValues>>

with_enclosing(env) == Append(env, NoValues)
enclosing(env) == Front(env)

define(env, name, var) == [env EXCEPT ![Len(env)] = insert(@, name, var)]

\* the innermost of the first i maps that holds the name, 0 if none does
RECURSIVE holder(_, _, _)
holder(env, name, i) ==
    IF i = 0 THEN 0
    ELSE IF name \in DOMAIN env[i] THEN i
    ELSE holder(env, name, i - 1)

\* Environment::get: Some(val) or None
get(env, name) ==
    IF holder(env, name, Len(env)) = 0 THEN [some |-> FALSE, v |-> Nil]
    ELSE [some |-> TRUE, v |-> env[holder(env, name, Len(env))][name]]

\* Environment::assign: Ok with the environment changed, or Err
assign(env, name, var) ==
    IF holder(env, name, Len(env)) = 0 THEN [ok |-> FALSE, env |-> env]
    ELSE [ok |-> TRUE,
          env |-> [env EXCEPT ![holder(env, name, Len(env))][name] = var]]

\* Interpreter.ret: None
NoRet == [some |-> FALSE, v |-> Nil]

\* The interpreter as one record it: environment, lox_functions, counter, ret;
\* lines, what has been printed; v, the value of the expression evaluated
\* last (or what its Err holds); vs, the arguments evaluated for a call; and
\* res, the result so far: "ok", "err" (an Err result), "panic" (with msg),
\* "loop" (the evaluation is in a loop it never leaves) or "cut" (a loop was
\* followed for MaxPasses passes).  Every operator leaves an interpreter
\* whose res is not "ok" alone.

\* a while loop is followed for at most MaxPasses passes
MaxPasses == 3

\* what the passes of a loop depend on
loop_state(it) == <<it.environment, it.lox_functions, it.counter, it.ret>>

\* Interpreter::interpret_expression, Expression::Unary with
\* UnaryOperatorType::Bang: Ok(value) or Err(TypeNotMatch)
unary_bang(value) ==
    CASE value.k = "Bool" -> [ok |-> TRUE, v |-> Bool(value.n = 0)]
      [] value.k = "Nil" -> [ok |-> TRUE, v |-> Bool(FALSE)]
      [] OTHER -> [ok |-> FALSE, v |-> value]

\* the same with UnaryOperatorType::Minus
unary_minus(value) ==
    CASE value.k = "Number" -> [ok |-> TRUE, v |-> Number(0 - value.n)]
      [] OTHER -> [ok |-> FALSE, v |-> value]

\* the interpreter after an expression with that Result
result(it, r) == [it EXCEPT !.v = r.v, !.res = IF r.ok THEN "ok" ELSE "err"]

RECURSIVE interpret_expression(_, _), interpret_arguments(_, _, _),
          lox_function_call(_, _, _), interpret_statement(_, _),
          execute_statements(_, _, _), execute_block(_, _), while_loop(_, _, _)

\* Interpreter::interpret_expression: res is "ok" and v the value, or the
\* evaluation has failed
interpret_expression(it, expr) ==
    IF ~Running(it) THEN it
    ELSE CASE expr.e = "Literal" -> [it EXCEPT !.v = expr.v]
      [] expr.e = "Unary" ->
            LET operate(r) ==
                    IF ~Running(r) THEN r
                    ELSE IF expr.name = "Minus" THEN result(r, unary_minus(r.v))
                    ELSE result(r, unary_bang(r.v))
            IN operate(interpret_expression(it, expr.of[1]))
      [] expr.e = "Variable" ->
            IF get(it.environment, expr.name).some
            THEN [it EXCEPT !.v = get(it.environment, expr.name).v]
            ELSE [it EXCEPT !.v = String(expr.name), !.res = "err"]
      [] expr.e = "Assign" ->
            LET store(r, assigned) ==
                    IF assigned.ok THEN [r EXCEPT !.environment = assigned.env]
                    ELSE [r EXCEPT !.v = String(expr.name), !.res = "err"]
                evaluated(r) ==
                    IF ~Running(r) THEN r
                    ELSE store(r, assign(r.environment, expr.name, r.v))
            IN evaluated(interpret_expression(it, expr.of[1]))
      [] expr.e = "Call" ->
            LET \* cast_callable and callable.call
                invoke(r, callee) ==
                    IF ~Running(r) THEN r
                    ELSE IF callee.k # "LoxFunc" THEN Panic(r, "should be callable")
                    ELSE IF callee.n \notin DOMAIN r.lox_functions
                    THEN Panic(r, "Internal interpreter error!")
                    ELSE lox_function_call(r, r.lox_functions[callee.n], r.vs)
                evaluated(r) ==
                    IF ~Running(r) THEN r
                    ELSE invoke(interpret_arguments(r, Tail(expr.of), <<>>), r.v)
            IN evaluated(interpret_expression(it, expr.of[1]))

\* the loop over args of Expression::Call: vs is the vector arguments
interpret_arguments(it, args, values) ==
    IF ~Running(it) THEN it
    ELSE IF args = <<>> THEN [it EXCEPT !.vs = values]
    ELSE LET next(r) ==
                IF ~Running(r) THEN r
                ELSE interpret_arguments(r, Tail(args), Append(values, r.v))
         IN next(interpret_expression(it, Head(args)))

\* the environment of a call: the parameters, zipped with the arguments,
\* defined in a new environment around the closure
RECURSIVE args_env(_, _, _)
args_env(env, params, args) ==
    IF params = <<>> \/ args = <<>> THEN env
    ELSE args_env(define(env, Head(params), Head(args)), Tail(params), Tail(args))

\* LoxFunction::call: the body runs in the new environment; then the saved
\* environment is put back and ret, taken, or Nil is the value
lox_function_call(it, func, args) ==
    IF ~Running(it) THEN it
    ELSE LET returned(r) ==
                IF ~Running(r) THEN r
                ELSE [r EXCEPT !.environment = it.environment,
                               !.v = IF r.ret.some THEN r.ret.v ELSE Nil,
                               !.ret = NoRet]
         IN returned(interpret_statement(
                [it EXCEPT !.environment =
                    args_env(with_enclosing(func.closure), func.parameters, args)],
                func.body))

\* the line println!("{:?}", result) writes for a Result
ResultLine(r) ==
    [kind |-> IF r.res = "ok" THEN "print" ELSE "print_err", i |-> 0, v |-> r.v]

\* the for loop of execute_block, from statement i on
execute_statements(it, sts, i) ==
    IF ~Running(it) \/ i > Len(sts) THEN it
    ELSE LET executed(r) ==
                IF ~Running(r) \/ r.ret.some THEN r
                ELSE execute_statements(r, sts, i + 1)
         IN executed(interpret_statement(it, sts[i]))

\* Interpreter::execute_block: after the statements the environment is the
\* enclosing one, as it is then; an Err returns before that
execute_block(it, sts) ==
    IF ~Running(it) THEN it
    ELSE LET leave(r) ==
                IF ~Running(r) THEN r
                ELSE [r EXCEPT !.environment = enclosing(r.environment)]
         IN leave(execute_statements(
                [it EXCEPT !.environment = with_enclosing(it.environment)], sts, 1))

\* the loop of Statement::While; seen holds what the passes so far started
\* from: a pass that starts from the same again is followed by the same
\* passes for ever
while_loop(it, stmt, seen) ==
    IF ~Running(it) THEN it
    ELSE IF loop_state(it) \in seen THEN [it EXCEPT !.res = "loop"]
    ELSE IF Cardinality(seen) >= MaxPasses THEN [it EXCEPT !.res = "cut"]
    ELSE LET pass(r) ==
                IF ~Running(r) THEN r
                ELSE IF r.v.k # "Bool" THEN Panic(r, "should be bool")
                ELSE IF r.v.n = 0 THEN r
                ELSE while_loop(interpret_statement(r, stmt.of[1]), stmt,
                                seen \cup {loop_state(it)})
         IN pass(interpret_expression(it, stmt.exp))

\* Interpreter::interpret_statement
interpret_statement(it, stmt) ==
    IF ~Running(it) THEN it
    ELSE CASE stmt.st = "Return" ->
            LET set(r) == IF ~Running(r) THEN r
                          ELSE [r EXCEPT !.ret = [some |-> TRUE, v |-> r.v]]
            IN IF stmt.exp.e = "None" THEN it
               ELSE set(interpret_expression(it, stmt.exp))
      [] stmt.st = "Function" ->
            LET declared(env) ==
                    [it EXCEPT !.counter = @ + 1,
                               !.environment = env,
                               !.lox_functions = insert(@, it.counter,
                                    [id |-> it.counter, name |-> stmt.name,
                                     parameters |-> stmt.params, body |-> stmt.of[1],
                                     closure |-> env])]
            IN declared(define(it.environment, stmt.name,
                               LoxFunction(stmt.name, it.counter)))
      [] stmt.st = "Expression" -> interpret_expression(it, stmt.exp)
      [] stmt.st = "Print" ->
            LET print(r) ==
                    IF r.res \in {"ok", "err"}
                    THEN [r EXCEPT !.lines = Append(@, ResultLine(r)), !.res = "ok"]
                    ELSE r
            IN print(interpret_expression(it, stmt.exp))
      [] stmt.st = "Var" ->
            LET defined(r) ==
                    IF ~Running(r) THEN r
                    ELSE [r EXCEPT !.environment = define(@, stmt.name, r.v)]
            IN defined(interpret_expression(it, stmt.exp))
      [] stmt.st = "Block" -> execute_block(it, stmt.of)
      [] stmt.st = "If" ->
            LET branch(r) ==
                    IF ~Running(r) THEN r
                    ELSE IF r.v.k # "Bool" THEN Panic(r, "should be bool")
                    ELSE IF r.v.n = 1 THEN interpret_statement(r, stmt.of[1])
                    ELSE IF Len(stmt.of) = 2 THEN interpret_statement(r, stmt.of[2])
                    ELSE r
            IN branch(interpret_expression(it, stmt.exp))
      [] stmt.st = "While" -> while_loop(it, stmt, {})

-----------------------------------------------------------------------------
(* Programs: the token sequences given to Compiler::new *)

Eof == T("Eof")
LP == T("LeftParen")
RP == T("RightParen")
LB == T("LeftBrace")
RB == T("RightBrace")
Semi == T("Semicolon")

\* fun f() { return 1; } print f();
ProgArity0 ==
    <<T("Fun"), Id("f"), LP, RP, LB, T("Return"), Num(1), Semi, RB,
      T("Print"), Id("f"), LP, RP, Semi, Eof>>

\* fun f(a) { return a; } print f(7);
ProgArity1 ==
    <<T("Fun"), Id("f"), LP, Id("a"), RP, LB, T("Return"), Id("a"), Semi, RB,
      T("Print"), Id("f"), LP, Num(7), RP, Semi, Eof>>

\* fun f(a, b) { return a; } print f(1, 2);
ProgArity2 ==
    <<T("Fun"), Id("f"), LP, Id("a"), T("Comma"), Id("b"), RP, LB,
      T("Return"), Id("a"), Semi, RB,
      T("Print"), Id("f"), LP, Num(1), T("Comma"), Num(2), RP, Semi, Eof>>

\* fun f(a, b) { return a; } print 5 + f(1, 2);
ProgArity2Under ==
    <<T("Fun"), Id("f"), LP, Id("a"), T("Comma"), Id("b"), RP, LB,
      T("Return"), Id("a"), Semi, RB,
      T("Print"), Num(5), T("Plus"), Id("f"), LP, Num(1), T("Comma"), Num(2), RP,
      Semi, Eof>>

\* { var a = 1; print a; }
ProgBlockLocal ==
    <<LB, T("Var"), Id("a"), T("Equal"), Num(1), Semi, T("Print"), Id("a"), Semi, RB, Eof>>

\* if (true) print 1;
ProgTrailingIf ==
    <<T("If"), LP, T("True"), RP, T("Print"), Num(1), Semi, Eof>>

\* fun make(x) { fun inner() { return x; } return inner; } var f = make(42); print f();
ProgMake ==
    <<T("Fun"), Id("make"), LP, Id("x"), RP, LB,
        T("Fun"), Id("inner"), LP, RP, LB, T("Return"), Id("x"), Semi, RB,
        T("Return"), Id("inner"), Semi, RB,
      T("Var"), Id("f"), T("Equal"), Id("make"), LP, Num(42), RP, Semi,
      T("Print"), Id("f"), LP, RP, Semi, Eof>>

\* fun counter() { var n = 0; fun inc() { n = n + 1; return n; } return inc; }
\* var c = counter(); print c(); print c(); print c();
ProgCounter ==
    <<T("Fun"), Id("counter"), LP, RP, LB,
        T("Var"), Id("n"), T("Equal"), Num(0), Semi,
        T("Fun"), Id("inc"), LP, RP, LB,
          Id("n"), T("Equal"), Id("n"), T("Plus"), Num(1), Semi,
          T("Return"), Id("n"), Semi, RB,
        T("Return"), Id("inc"), Semi, RB,
      T("Var"), Id("c"), T("Equal"), Id("counter"), LP, RP, Semi,
      T("Print"), Id("c"), LP, RP, Semi,
      T("Print"), Id("c"), LP, RP, Semi,
      T("Print"), Id("c"), LP, RP, Semi, Eof>>

\* print x;
ProgUndefined == <<T("Print"), Id("x"), Semi, Eof>>

\* var x; print x;
ProgDefined == <<T("Var"), Id("x"), Semi, T("Print"), Id("x"), Semi, Eof>>

\* fun f(a) { return 1; } print f();
ProgTooFewArgs ==
    <<T("Fun"), Id("f"), LP, Id("a"), RP, LB, T("Return"), Num(1), Semi, RB,
      T("Print"), Id("f"), LP, RP, Semi, Eof>>

\* fun f() { return 1; } print f(7);
ProgTooManyArgs ==
    <<T("Fun"), Id("f"), LP, RP, LB, T("Return"), Num(1), Semi, RB,
      T("Print"), Id("f"), LP, Num(7), RP, Semi, Eof>>

\* if (<cond>) print 1; else print 2;
ProgIfElse(cond) ==
    <<T("If"), LP, cond, RP, T("Print"), Num(1), Semi,
      T("Else"), T("Print"), Num(2), Semi, Eof>>

\* print !<operand>;
ProgNot(operand) == <<T("Print"), T("Bang"), operand, Semi, Eof>>

\* print <left> + <right>;
ProgAdd(left, right) == <<T("Print"), left, T("Plus"), right, Semi, Eof>>

\* print "a" + "b" + "c";
ProgConcat3 ==
    <<T("Print"), Str("a"), T("Plus"), Str("b"), T("Plus"), Str("c"), Semi, Eof>>

\* print clock(); sleep(1);
ProgNative ==
    <<T("Print"), Id("clock"), LP, RP, Semi, Id("sleep"), LP, Num(1), RP, Semi, Eof>>

\* print ;
ProgSyntaxError == <<T("Print"), Semi, Eof>>

\* print <left> <op> <right>;
ProgBinary(op, left, right) == <<T("Print"), left, T(op), right, Semi, Eof>>

\* fun f() {} class A {} var a = A(); print <left> == <right>;
ProgEqual(left, right) ==
    <<T("Fun"), Id("f"), LP, RP, LB, RB,
      T("Class"), Id("A"), LB, RB,
      T("Var"), Id("a"), T("Equal"), Id("A"), LP, RP, Semi,
      T("Print"), left, T("EqualEqual"), right, Semi, Eof>>

\* print 8 <op1> 4 <op2> 2;
ProgChain(op1, op2) ==
    <<T("Print"), Num(8), T(op1), Num(4), T(op2), Num(2), Semi, Eof>>

\* print 1 + 2 * 3;
ProgTermFactor ==
    <<T("Print"), Num(1), T("Plus"), Num(2), T("Star"), Num(3), Semi, Eof>>

\* print (1 + 2) * 3;
ProgGrouping ==
    <<T("Print"), LP, Num(1), T("Plus"), Num(2), RP, T("Star"), Num(3), Semi, Eof>>

\* print 8 - 3 - 2;
ProgLeftAssoc ==
    <<T("Print"), Num(8), T("Minus"), Num(3), T("Minus"), Num(2), Semi, Eof>>

\* print -<a> + <b>;
ProgNegateAdd(a, b) == <<T("Print"), T("Minus"), a, T("Plus"), b, Semi, Eof>>

\* print !<a> == <b>;
ProgNotEqual(a, b) == <<T("Print"), T("Bang"), a, T("EqualEqual"), b, Semi, Eof>>

\* var a = "hi"; { var a = a + "!"; print a; } print a;
ProgShadow ==
    <<T("Var"), Id("a"), T("Equal"), Str("hi"), Semi,
      LB, T("Var"), Id("a"), T("Equal"), Id("a"), T("Plus"), Str("!"), Semi,
          T("Print"), Id("a"), Semi, RB,
      T("Print"), Id("a"), Semi, Eof>>

\* { var a = a; }
ProgOwnInitializer ==
    <<LB, T("Var"), Id("a"), T("Equal"), Id("a"), Semi, RB, Eof>>

\* { var b = 1; var a = b + a; }
ProgOwnInitializerAfterLocal ==
    <<LB, T("Var"), Id("b"), T("Equal"), Num(1), Semi,
          T("Var"), Id("a"), T("Equal"), Id("b"), T("Plus"), Id("a"), Semi, RB, Eof>>

\* fun f() { var a = 1 + a; } f();
ProgOwnInitializerInFunction ==
    <<T("Fun"), Id("f"), LP, RP, LB,
        T("Var"), Id("a"), T("Equal"), Num(1), T("Plus"), Id("a"), Semi, RB,
      Id("f"), LP, RP, Semi, Eof>>

\* { var a = 1; var a = 2; }
ProgRedeclare ==
    <<LB, T("Var"), Id("a"), T("Equal"), Num(1), Semi,
          T("Var"), Id("a"), T("Equal"), Num(2), Semi, RB, Eof>>

\* { var a = 1; { var b = 2; var b = 3; } }
ProgRedeclareNested ==
    <<LB, T("Var"), Id("a"), T("Equal"), Num(1), Semi,
          LB, T("Var"), Id("b"), T("Equal"), Num(2), Semi,
              T("Var"), Id("b"), T("Equal"), Num(3), Semi, RB, RB, Eof>>

\* { var a = 1; { var a = 2; } }
ProgShadowLocal ==
    <<LB, T("Var"), Id("a"), T("Equal"), Num(1), Semi,
          LB, T("Var"), Id("a"), T("Equal"), Num(2), Semi, RB, RB, Eof>>

\* var i = 0; while (i < <n>) { print i; i = i + 1; }
ProgWhile(n) ==
    <<T("Var"), Id("i"), T("Equal"), Num(0), Semi,
      T("While"), LP, Id("i"), T("Less"), Num(n), RP,
      LB, T("Print"), Id("i"), Semi,
          Id("i"), T("Equal"), Id("i"), T("Plus"), Num(1), Semi, RB, Eof>>

\* the three clauses and the body of: for (<i> = 0; i < <n>; i = i + 1) print i;
ForLoop(init, n) ==
    <<T("For"), LP>> \o init \o <<Id("i"), T("Equal"), Num(0), Semi,
      Id("i"), T("Less"), Num(n), Semi,
      Id("i"), T("Equal"), Id("i"), T("Plus"), Num(1), RP,
      T("Print"), Id("i"), Semi>>

\* var i; for (i = 0; i < <n>; i = i + 1) print i; print i;
ProgFor(n) ==
    <<T("Var"), Id("i"), Semi>> \o ForLoop(<<>>, n) \o <<T("Print"), Id("i"), Semi, Eof>>

\* fun f() { for (var i = 0; i < <n>; i = i + 1) print i; } f();
ProgForInFunction(n) ==
    <<T("Fun"), Id("f"), LP, RP, LB>> \o ForLoop(<<T("Var")>>, n) \o
    <<RB, Id("f"), LP, RP, Semi, Eof>>

\* for (var i = 0; i < <n>; i = i + 1) print i;
ProgForVar(n) == ForLoop(<<T("Var")>>, n) \o <<Eof>>

\* the loops run 0..MaxLoop times
\* the argument tokens 1, 2, .. n of a call
Args(n) ==
    [i \in 1..(2 * n - 1) |-> IF i % 2 = 1 THEN Num((i + 1) \div 2) ELSE T("Comma")]

\* class A {} print A(<1, .. n>);
ProgClassCall(n) ==
    <<T("Class"), Id("A"), LB, RB, T("Print"), Id("A"), LP>> \o Args(n)
        \o <<RP, Semi, Eof>>

\* print 7 + <name>(<1, .. n>);
ProgNativeCall(name, n) ==
    <<T("Print"), Num(7), T("Plus"), Id(name), LP>> \o Args(n) \o <<RP, Semi, Eof>>

\* a = 1; print a;
ProgSetUndefined ==
    <<Id("a"), T("Equal"), Num(1), Semi, T("Print"), Id("a"), Semi, Eof>>

\* var a; a = 1; print a;
ProgSetDefined ==
    <<T("Var"), Id("a"), Semi, Id("a"), T("Equal"), Num(1), Semi,
      T("Print"), Id("a"), Semi, Eof>>

\* class A {} var a = A(); var b = A(); b.x = a; a.y = 1; print b.x;
ProgInstanceInField ==
    <<T("Class"), Id("A"), LB, RB,
      T("Var"), Id("a"), T("Equal"), Id("A"), LP, RP, Semi,
      T("Var"), Id("b"), T("Equal"), Id("A"), LP, RP, Semi,
      Id("b"), T("Dot"), Id("x"), T("Equal"), Id("a"), Semi,
      Id("a"), T("Dot"), Id("y"), T("Equal"), Num(1), Semi,
      T("Print"), Id("b"), T("Dot"), Id("x"), Semi, Eof>>

\* class A {} var a = A(); var b = a; b.x = 1; print a.x;
ProgInstanceTwoNames ==
    <<T("Class"), Id("A"), LB, RB,
      T("Var"), Id("a"), T("Equal"), Id("A"), LP, RP, Semi,
      T("Var"), Id("b"), T("Equal"), Id("a"), Semi,
      Id("b"), T("Dot"), Id("x"), T("Equal"), Num(1), Semi,
      T("Print"), Id("a"), T("Dot"), Id("x"), Semi, Eof>>

\* fun f() { f(); } f();
ProgRecursion ==
    <<T("Fun"), Id("f"), LP, RP, LB, Id("f"), LP, RP, Semi, RB,
      Id("f"), LP, RP, Semi, Eof>>

\* fun f() {} f(<1, .. n>);
ProgManyArgs(n) ==
    <<T("Fun"), Id("f"), LP, RP, LB, RB, Id("f"), LP>> \o Args(n)
        \o <<RP, Semi, Eof>>

\* var a = 1; var b = 2; var c = 3;
Vars123 ==
    <<T("Var"), Id("a"), T("Equal"), Num(1), Semi,
      T("Var"), Id("b"), T("Equal"), Num(2), Semi,
      T("Var"), Id("c"), T("Equal"), Num(3), Semi>>

\* var a = 1; var b = 2; var c = 3; a + b = c; print a;
ProgAssignToSum ==
    Vars123 \o <<Id("a"), T("Plus"), Id("b"), T("Equal"), Id("c"), Semi,
                 T("Print"), Id("a"), Semi, Eof>>

\* var a = 1; var b = 2; var c = 3; a = b = c; print a; print b;
ProgAssignChain ==
    Vars123 \o <<Id("a"), T("Equal"), Id("b"), T("Equal"), Id("c"), Semi,
                 T("Print"), Id("a"), Semi, T("Print"), Id("b"), Semi, Eof>>

\* fun f() { print 1; } fun f() { print 2; } f();
ProgTwoFunctions ==
    <<T("Fun"), Id("f"), LP, RP, LB, T("Print"), Num(1), Semi, RB,
      T("Fun"), Id("f"), LP, RP, LB, T("Print"), Num(2), Semi, RB,
      Id("f"), LP, RP, Semi, Eof>>

\* fun outer() { fun inner() { print 1; } return inner; } var g = outer(); g();
ProgReturnedFunction ==
    <<T("Fun"), Id("outer"), LP, RP, LB,
        T("Fun"), Id("inner"), LP, RP, LB, T("Print"), Num(1), Semi, RB,
        T("Return"), Id("inner"), Semi, RB,
      T("Var"), Id("g"), T("Equal"), Id("outer"), LP, RP, Semi,
      Id("g"), LP, RP, Semi, Eof>>

\* { var a = 1; { var b = 2; var c = 3; print c; } print a; } print 0;
ProgNestedBlocks ==
    <<LB, T("Var"), Id("a"), T("Equal"), Num(1), Semi,
        LB, T("Var"), Id("b"), T("Equal"), Num(2), Semi,
            T("Var"), Id("c"), T("Equal"), Num(3), Semi,
            T("Print"), Id("c"), Semi, RB,
        T("Print"), Id("a"), Semi, RB,
      T("Print"), Num(0), Semi, Eof>>

\* fun f(p) { { var b = 2; var c = 3; print c; } { var d = 4; print d; } print p; }
\* f(1);
ProgBlocksInFunction ==
    <<T("Fun"), Id("f"), LP, Id("p"), RP, LB,
        LB, T("Var"), Id("b"), T("Equal"), Num(2), Semi,
            T("Var"), Id("c"), T("Equal"), Num(3), Semi,
            T("Print"), Id("c"), Semi, RB,
        LB, T("Var"), Id("d"), T("Equal"), Num(4), Semi,
            T("Print"), Id("d"), Semi, RB,
        T("Print"), Id("p"), Semi, RB,
      Id("f"), LP, Num(1), RP, Semi, Eof>>

\* var <name> = <v>;
Decl(name, v) == <<T("Var"), Id(name), T("Equal"), Num(v), Semi>>

\* the declarations of the first n of the names, with the values 1 .. n
RECURSIVE Decls(_, _)
Decls(names, n) ==
    IF n = 0 THEN <<>> ELSE Decls(names, n - 1) \o Decl(names[n], n)

\* fun f() { <n declarations> { <k declarations> } var e = 5; print e; } f();
ProgBlock(n, k) ==
    <<T("Fun"), Id("f"), LP, RP, LB>> \o Decls(<<"a", "b", "c">>, n)
        \o <<LB>> \o Decls(<<"x", "y", "z">>, k) \o <<RB>> \o Decl("e", 5)
        \o <<T("Print"), Id("e"), Semi, RB, Id("f"), LP, RP, Semi, Eof>>

\* the blocks declare 0..MaxLocals locals
MaxLocals == 2

\* the calls pass 0..MaxArgs arguments
MaxArgs == 2

MaxLoop == 3

\* the operator tokens and the operands of the parametrised programs
Arithmetic == {"Plus", "Minus", "Star", "Slash"}
Comparison == {"Greater", "GreaterEqual", "Less", "LessEqual"}
EqualOperands ==
    {T("Nil"), T("False"), T("True"), Num(0), Num(1), Str("x"), Id("f"), Id("A"), Id("a")}

\* the literal operands the parametrised programs are instantiated with
Operands == {T("Nil"), T("False"), T("True"), Num(0), Num(1), Str("x"), Str("")}

Programs ==
    {ProgArity0, ProgArity1, ProgArity2, ProgArity2Under, ProgBlockLocal,
     ProgTrailingIf, ProgMake, ProgCounter, ProgUndefined, ProgDefined,
     ProgTooFewArgs, ProgTooManyArgs, ProgConcat3, ProgNative, ProgSyntaxError}
    \cup {ProgIfElse(o) : o \in Operands}
    \cup {ProgNot(o) : o \in Operands}
    \cup {ProgAdd(l, r) : l \in {Num(1), Str("a"), T("Nil")}, r \in {Num(2), Str("b"), T("True")}}
    \cup {ProgBinary(op, l, r) : op \in {"Minus", "Star", "Slash"},
                l \in {Num(6), Str("a"), T("Nil")}, r \in {Num(2), Str("b"), T("True")}}
    \cup {ProgBinary(op, l, r) : op \in Comparison,
                l \in {Num(1), Str("a"), T("Nil")}, r \in {Num(1), Num(2), Str("a")}}
    \cup {ProgEqual(l, r) : l \in EqualOperands, r \in EqualOperands}
    \cup {ProgChain(op1, op2) : op1 \in Arithmetic, op2 \in Arithmetic}
    \cup {ProgTermFactor, ProgGrouping, ProgLeftAssoc}
    \cup {ProgNegateAdd(a, b) : a \in {Num(1), Num(2)}, b \in {Num(2), Num(5)}}
    \cup {ProgNotEqual(a, b) : a \in {T("Nil"), T("False"), T("True")},
                               b \in {T("Nil"), T("False"), T("True")}}
    \cup {ProgShadow, ProgOwnInitializer, ProgOwnInitializerInFunction,
          ProgOwnInitializerAfterLocal,
          ProgRedeclare, ProgRedeclareNested, ProgShadowLocal}
    \cup {ProgInstanceInField, ProgInstanceTwoNames, ProgRecursion}
    \cup {ProgManyArgs(255), ProgManyArgs(256)}
    \cup {ProgAssignToSum, ProgAssignChain, ProgTwoFunctions, ProgReturnedFunction}
    \cup {ProgNestedBlocks, ProgBlocksInFunction}
    \cup {ProgBlock(n, k) : n \in 0..MaxLocals, k \in 0..MaxLocals}
    \cup {ProgWhile(n) : n \in 0..MaxLoop}
    \cup {ProgFor(n) : n \in 0..MaxLoop}
    \cup {ProgForInFunction(n) : n \in 0..MaxLoop}
    \cup {ProgForVar(n) : n \in 0..MaxLoop}
    \cup {ProgClassCall(n) : n \in 0..MaxArgs}
    \cup {ProgNativeCall(name, n) : name \in {"clock", "sleep"}, n \in 0..MaxArgs}
    \cup {ProgSetUndefined, ProgSetDefined}

-----------------------------------------------------------------------------
(* Source texts, handed to scan_tokens *)

\* print 1;
SrcPrint == Text(<<"print", " ", "1", ";">>)

\* print 1;
\* print 2;
SrcTwoLines == Text(<<"print", " ", "1", ";", "\n", "print", " ", "2", ";">>)

\* print ;
SrcSyntaxError == Text(<<"print", " ", ";">>)

\* print 1 <op> 2;
SrcBinary(op) == Text(<<"print", " ", "1", " ", op, " ", "2", ";">>)

\* print 1<op>2;
SrcBinaryTight(op) == Text(<<"print", " ", "1", op, "2", ";">>)

\* print !true;
SrcBang == Text(<<"print", " ", "!", "true", ";">>)

\* var a = 1; print a;
SrcEqual ==
    Text(<<"var", " ", "a", " ", "=", " ", "1", ";", " ", "print", " ", "a", ";">>)

\* print "a";
SrcString == Text(<<"print", " ", "\"a\"", ";">>)

\* "ab"
SrcStringOnly == Text(<<"\"ab\"">>)

\* print "a
SrcUnterminated == Text(<<"print", " ", "\"", "a">>)

\* // a
\* print 1;
SrcComment == Text(<<"/", "/", " ", "a", "\n", "print", " ", "1", ";">>)

\* print 1; // a
SrcCommentLast == Text(<<"print", " ", "1", ";", " ", "/", "/", " ", "a">>)

\* print 1; @
SrcUnexpected == Text(<<"print", " ", "1", ";", " ", "@">>)

\* print ; @
SrcSyntaxErrorUnexpected == Text(<<"print", " ", ";", " ", "@">>)

\* the operators of the binary expressions in the texts
Operators == {"<", "<=", ">", ">=", "==", "!=", "/", "+", "-", "*"}

Sources ==
    {<<>>, SrcPrint, SrcTwoLines, SrcSyntaxError, SrcBang, SrcEqual, SrcString,
     SrcStringOnly, SrcUnterminated, SrcComment, SrcCommentLast, SrcUnexpected,
     SrcSyntaxErrorUnexpected}
    \cup {SrcBinary(op) : op \in Operators}
    \cup {SrcBinaryTight(op) : op \in Operators}

-----------------------------------------------------------------------------
(* Scripts: the statements the parser hands to Runtime::run *)

Literals == {Nil, Bool(TRUE), Number(1), String("x")}

Expressions ==
    {Literal(v) : v \in Literals}
    \cup {Unary(opt, Literal(v)) : opt \in {"Minus", "Bang"}, v \in Literals}
    \cup {Variable("x")}

\* var x = 0; fun f() { x = 1; } f(); print x;
ScriptAssignInFunction ==
    <<VarStatement("x", Literal(Number(0))),
      Function("f", <<>>, Block(<<ExpressionStatement(Assign("x", Literal(Number(1))))>>)),
      ExpressionStatement(Call(Variable("f"), <<>>)),
      PrintStatement(Variable("x"))>>

\* var x = 0; { x = 1; } print x;
ScriptAssignInBlock ==
    <<VarStatement("x", Literal(Number(0))),
      Block(<<ExpressionStatement(Assign("x", Literal(Number(1))))>>),
      PrintStatement(Variable("x"))>>

\* fun f(a) { print a; a = 2; print a; } f(7);
ScriptParameter ==
    <<Function("f", <<"a">>,
               Block(<<PrintStatement(Variable("a")),
                       ExpressionStatement(Assign("a", Literal(Number(2)))),
                       PrintStatement(Variable("a"))>>)),
      ExpressionStatement(Call(Variable("f"), <<Literal(Number(7))>>))>>

\* fun f() { while (true) { return 1; } } print f(); print 2;
ScriptReturnInWhile ==
    <<Function("f", <<>>,
               Block(<<While(Literal(Bool(TRUE)),
                             Block(<<Return(Literal(Number(1)))>>))>>)),
      PrintStatement(Call(Variable("f"), <<>>)),
      PrintStatement(Literal(Number(2)))>>

\* fun f() { for (var i = 0; true;) return 1; } print f(); print 2;
\* the parser gives the for loop as a block of initialiser and while
ScriptReturnInFor ==
    <<Function("f", <<>>,
               Block(<<Block(<<VarStatement("i", Literal(Number(0))),
                               While(Literal(Bool(TRUE)),
                                     Return(Literal(Number(1))))>>)>>)),
      PrintStatement(Call(Variable("f"), <<>>)),
      PrintStatement(Literal(Number(2)))>>

\* var x = true; while (x) { print x; x = false; } print x;
ScriptWhile ==
    <<VarStatement("x", Literal(Bool(TRUE))),
      While(Variable("x"),
            Block(<<PrintStatement(Variable("x")),
                    ExpressionStatement(Assign("x", Literal(Bool(FALSE))))>>)),
      PrintStatement(Variable("x"))>>

\* while (<condition>) print 1; print 2;
ScriptWhileOf(condition) ==
    <<While(condition, PrintStatement(Literal(Number(1)))),
      PrintStatement(Literal(Number(2)))>>

\* fun f() { return; print 1; } f(); print 2;
ScriptReturnBare ==
    <<Function("f", <<>>,
               Block(<<Return(NoExpression), PrintStatement(Literal(Number(1)))>>)),
      ExpressionStatement(Call(Variable("f"), <<>>)),
      PrintStatement(Literal(Number(2)))>>

\* fun f() { return 3; print 1; } print f(); print 2;
ScriptReturnValue ==
    <<Function("f", <<>>,
               Block(<<Return(Literal(Number(3))), PrintStatement(Literal(Number(1)))>>)),
      PrintStatement(Call(Variable("f"), <<>>)),
      PrintStatement(Literal(Number(2)))>>

\* fun f() { if (true) { return 3; } print 1; } print f(); print 2;
ScriptReturnInIf ==
    <<Function("f", <<>>,
               Block(<<If(Literal(Bool(TRUE)), <<Block(<<Return(Literal(Number(3)))>>)>>),
                       PrintStatement(Literal(Number(1)))>>)),
      PrintStatement(Call(Variable("f"), <<>>)),
      PrintStatement(Literal(Number(2)))>>

\* if (<condition>) print 1; else print 2;
ScriptIf(condition) ==
    <<If(condition, <<PrintStatement(Literal(Number(1))),
                      PrintStatement(Literal(Number(2)))>>)>>

\* <e>(); print 1;
ScriptCall(e) ==
    <<ExpressionStatement(Call(e, <<>>)), PrintStatement(Literal(Number(1)))>>

\* <e>; print 1;     var a = <e>; print a;     print <e>; print 1;
Scripts ==
    {<<ExpressionStatement(e), PrintStatement(Literal(Number(1)))>> : e \in Expressions}
    \cup {<<VarStatement("a", e), PrintStatement(Variable("a"))>> : e \in Expressions}
    \cup {<<PrintStatement(e), PrintStatement(Literal(Number(1)))>> : e \in Expressions}
    \cup {ScriptAssignInFunction, ScriptAssignInBlock, ScriptParameter,
          ScriptReturnInWhile, ScriptReturnInFor, ScriptWhile, ScriptReturnBare,
          ScriptReturnValue, ScriptReturnInIf}
    \cup {ScriptWhileOf(Literal(v)) : v \in {Bool(TRUE), Bool(FALSE), Nil}}
    \cup {ScriptIf(Literal(v)) : v \in {Bool(TRUE), Bool(FALSE), Nil}}
    \cup {ScriptCall(e) : e \in {Literal(Number(1)), Variable("x")}}

-----------------------------------------------------------------------------
(* Bounds *)

\* the readings of the system clock are 0..MaxClock
MaxClock == 1

\* the runs are followed for at most MaxSteps instructions
MaxSteps == 150

-----------------------------------------------------------------------------
(* VMRuntime::run *)

NoStep ==
    [opt |-> [op |-> "none", a |-> 0, s |-> "", line |-> 0],
     stack |-> <<>>, call_frames |-> <<>>, globals |-> <<>>]

\* VMRuntime::default: a default machine after VirtualMachine::init;
\* Runtime::default: a default interpreter
Init ==
    /\ \/ /\ source \in Sources
          /\ tokens = <<>>
          /\ statements = <<>>
          /\ pc = "scan"
       \/ /\ source = <<>>
          /\ tokens \in Programs
          /\ statements = <<>>
          /\ pc = "compile"
       \/ /\ source = <<>>
          /\ tokens = <<>>
          /\ statements \in Scripts
          /\ pc = "interpret"
    /\ position = 0
    /\ environment = DefaultEnvironment
    /\ lox_functions = NoValues
    /\ counter = 0
    /\ ret = NoRet
    /\ call_frames = <<>>
    /\ stack = <<>>
    /\ globals = [n \in {"clock", "sleep"} |->
                    IF n = "clock" THEN NativeFunc("clock", 0) ELSE NativeFunc("sleep", 1)]
    /\ id = 0
    /\ status = "none"
    /\ panic_msg = ""
    /\ had_error = FALSE
    /\ out = <<>>
    /\ last = NoStep
    /\ steps = 0

machine ==
    [call_frames |-> call_frames, stack |-> stack, globals |-> globals,
     id |-> id, out |-> out, res |-> "ok", msg |-> ""]

\* VirtualMachine::prepare_interpret
prepare_interpret(func) == <<[function |-> func, ip |-> 0, slots_offset |-> 1]>>

\* the variables of the tree-walking interpreter's run
interpreter_vars == <<statements, position, environment, lox_functions, counter, ret>>

\* scanner::scan_tokens(file) in VMRuntime::run; tokens.unwrap() is the
\* sequence the scanner has built
Scan ==
    /\ pc = "scan"
    /\ tokens' = scan_tokens(source)
    /\ pc' = "compile"
    /\ UNCHANGED <<source, interpreter_vars, call_frames, stack, globals, id, status,
                   panic_msg, had_error, out, last, steps>>

\* compiler.compile() in VMRuntime::run, then the start of interpret
Compile ==
    /\ pc = "compile"
    /\ \E c \in {compile(NewCompiler(tokens))} :
          CASE c.err = "ok" ->
                 /\ call_frames' = prepare_interpret(c.function)
                 /\ pc' = "run"
                 /\ status' = "running"
                 /\ UNCHANGED <<had_error, out, panic_msg>>
            [] c.err = "panic" ->
                 /\ pc' = "done"
                 /\ status' = "panic"
                 /\ panic_msg' = "compiler panic"
                 /\ UNCHANGED <<call_frames, had_error, out>>
            [] OTHER ->
                 /\ pc' = "done"
                 /\ status' = "compile_error"
                 /\ had_error' = TRUE
                 /\ out' = Append(out, ErrorLine(c.err))
                 /\ UNCHANGED <<call_frames, panic_msg>>
    /\ UNCHANGED <<source, tokens, interpreter_vars, stack, globals, id, last, steps>>

\* one iteration of VirtualMachine::run that is not done: self.step()?
Step ==
    /\ pc = "run"
    /\ ~is_done(machine)
    /\ steps < MaxSteps
    /\ steps' = steps + 1
    /\ \E checked \in BOOLEAN, now \in 0..MaxClock :
         \E m \in {step(machine, checked, now)} :
            /\ call_frames' = m.call_frames
            /\ stack' = m.stack
            /\ globals' = m.globals
            /\ id' = m.id
            /\ last' = [opt |-> At(frame(machine).function.code, frame(machine).ip),
                        stack |-> stack, call_frames |-> call_frames,
                        globals |-> globals]
            /\ CASE m.res = "ok" ->
                      /\ out' = m.out
                      /\ UNCHANGED <<pc, status, had_error, panic_msg>>
                 [] m.res = "err" ->
                      /\ out' = Append(m.out, ErrorLine("SimpleError"))
                      /\ pc' = "done"
                      /\ status' = "runtime_error"
                      /\ had_error' = TRUE
                      /\ UNCHANGED panic_msg
                 [] m.res = "panic" ->
                      /\ out' = m.out
                      /\ pc' = "done"
                      /\ status' = "panic"
                      /\ panic_msg' = m.msg
                      /\ UNCHANGED had_error
    /\ UNCHANGED <<source, tokens, interpreter_vars>>

\* the lines "stack #i: value v" VMRuntime::run prints while it empties the stack
RECURSIVE drain(_)
drain(stk) ==
    IF Len(stk) = 0 THEN <<>>
    ELSE <<StackLine(Len(stk) - 1, Last(stk))>> \o drain(Front(stk))

\* run() finds is_done and returns Ok(()); VMRuntime::run empties the stack
Finish ==
    /\ pc = "run"
    /\ is_done(machine)
    /\ pc' = "done"
    /\ status' = "ok"
    /\ out' = out \o drain(stack)
    /\ stack' = <<>>
    /\ UNCHANGED <<source, tokens, interpreter_vars, call_frames, globals, id,
                   had_error, last, panic_msg, steps>>

\* Interpreter as the record the operators take
interpreter ==
    [environment |-> environment, lox_functions |-> lox_functions,
     counter |-> counter, ret |-> ret, lines |-> <<>>, v |-> Nil, vs |-> <<>>,
     res |-> "ok", msg |-> ""]

\* one iteration of the loop of Runtime::run over the statements: an Err
\* of interpret_statement is reported, and the loop goes on; a panic ends
\* the process, and from a loop that is never left the run does not return
Interpret ==
    /\ pc = "interpret"
    /\ position < Len(statements)
    /\ \E r \in {interpret_statement(interpreter, At(statements, position))} :
          /\ environment' = r.environment
          /\ lox_functions' = r.lox_functions
          /\ counter' = r.counter
          /\ ret' = r.ret
          /\ CASE r.res = "ok" ->
                    /\ out' = out \o r.lines
                    /\ position' = position + 1
                    /\ UNCHANGED <<pc, status, had_error, panic_msg>>
               [] r.res = "err" ->
                    /\ out' = Append(out \o r.lines, ErrorLine("InterpreterError"))
                    /\ had_error' = TRUE
                    /\ position' = position + 1
                    /\ UNCHANGED <<pc, status, panic_msg>>
               [] r.res = "panic" ->
                    /\ out' = out \o r.lines
                    /\ pc' = "done"
                    /\ status' = "panic"
                    /\ panic_msg' = r.msg
                    /\ UNCHANGED <<position, had_error>>
               [] OTHER ->
                    /\ out' = out \o r.lines
                    /\ pc' = "loop"
                    /\ status' = r.res
                    /\ UNCHANGED <<position, had_error, panic_msg>>
    /\ UNCHANGED <<source, tokens, statements, call_frames, stack, globals, id,
                   last, steps>>

\* the loop is over: Runtime::run returns
InterpretEnd ==
    /\ pc = "interpret"
    /\ position = Len(statements)
    /\ pc' = "done"
    /\ status' = IF had_error THEN "runtime_error" ELSE "ok"
    /\ UNCHANGED <<source, tokens, interpreter_vars, call_frames, stack, globals, id,
                   panic_msg, had_error, out, last, steps>>

Next == Scan \/ Compile \/ Step \/ Finish \/ Interpret \/ InterpretEnd

Spec == Init /\ [][Next]_vars

\* the exit code of the process (None while it runs): 101 after a panic,
\* 65 from run_file when had_error, else 0
exit_code ==
    IF pc # "done" THEN -1
    ELSE IF status = "panic" THEN 101
    ELSE IF had_error THEN 65 ELSE 0

-----------------------------------------------------------------------------
(* Properties *)

\* the state is the one the step of instruction op has just produced
after_step(op) == last.opt.op = op /\ status # "ok"

\* the frame the latest step executed in, and the frame now on top
last_frame == Last(last.call_frames)

\* nil and false are falsey, every other value is truthy
falsey(v) == v.k = "Nil" \/ (v.k = "Bool" /\ v.n = 0)

\* the values written by print statements, in order
printed ==
    LET lines == SelectSeq(out, LAMBDA l : l.kind = "print")
    IN [i \in 1..Len(lines) |-> lines[i].v]

\* C1: when OpReturn executes in a frame other than the outermost one, the
\* callee, its arguments and the frame's locals are replaced by the single
\* return value: the stack is afterwards as long as it was just before the
\* callee was pushed (slots_offset - 1), plus one, for every arity.
C1_ReturnReplacesFrameWindow ==
    (after_step("OpReturn") /\ Len(last.call_frames) > 1) =>
        /\ status = "running"
        /\ Len(stack) = (last_frame.slots_offset - 1) + 1

\* C2: whenever the next instruction is OpGetLocal(i) or OpSetLocal(i), in
\* any live frame including the script frame, slots_offset + i is an index
\* of the stack.
C2_LocalSlotWithinStack ==
    (pc = "run" /\ ~is_done(machine)
        /\ At(frame(machine).function.code, frame(machine).ip).op
              \in {"OpGetLocal", "OpSetLocal"}) =>
        frame(machine).slots_offset
            + At(frame(machine).function.code, frame(machine).ip).a < Len(stack)

\* C3: for every program the compiler accepts the machine never pops from
\* an empty value stack.
C3_NeverPopsEmptyStack == panic_msg # PopEmpty

\* the target of every Jump and JumpIfFalse of the function, and of the
\* functions among its constants, is an instruction index of its chunk
RECURSIVE jumps_in_range(_)
jumps_in_range(func) ==
    /\ \A i \in 1..Len(func.code) :
          func.code[i].op \in {"Jump", "JumpIfFalse"} =>
              (i - 1) + 1 + func.code[i].a \in 0..(Len(func.code) - 1)
    /\ \A j \in 1..Len(func.constants) :
          func.constants[j].k = "Function" =>
              jumps_in_range(func.constants[j].fn)

\* C4: every patched Jump/JumpIfFalse offset gives a target index within
\* [0, code.len()) of the finished chunk, also a jump patched by the last
\* statement of the script.
C4_JumpTargetsInChunk ==
    (pc = "run" /\ Len(call_frames) > 0) => jumps_in_range(call_frames[1].function)

\* C5: a function value returned out of its declaring function stays
\* callable and sees the captured variable in one shared cell: the make
\* program prints 42 and the counter program prints 1, 2, 3.
C5_ClosuresCaptureVariables ==
    /\ (pc = "done" /\ tokens = ProgMake) =>
            (status = "ok" /\ printed = <<Number(42)>>)
    /\ (pc = "done" /\ tokens = ProgCounter) =>
            (status = "ok" /\ printed = <<Number(1), Number(2), Number(3)>>)

\* C6: OpGetGlobal for a name that is not defined ends the run with a
\* runtime error (an Err result, error status set), never with a value read
\* and never with a process abort.
C6_UndefinedGlobalIsRuntimeError ==
    (after_step("OpGetGlobal")
        /\ At(last_frame.function.constants, last.opt.a).s \notin DOMAIN last.globals) =>
        (status = "runtime_error" /\ had_error)

\* C7: a call of a user function with a number of arguments different from
\* its arity is a runtime error and pushes no call frame.
C7_ArityMismatchIsRuntimeError ==
    (after_step("Call")
        /\ At(last.stack, Len(last.stack) - last.opt.a - 1).k = "LoxFunc"
        /\ At(last.stack, Len(last.stack) - last.opt.a - 1).n # last.opt.a) =>
        (status = "runtime_error" /\ Len(call_frames) = Len(last.call_frames))

\* C8: JumpIfFalse(o) never fails: it leaves the stack alone and moves ip by
\* o exactly when the top of the stack is nil or false, whatever the value.
C8_JumpIfFalseTruthiness ==
    after_step("JumpIfFalse") =>
        /\ status = "running"
        /\ stack = last.stack
        /\ frame(machine).ip =
              last_frame.ip + 1 + (IF falsey(Last(last.stack)) THEN last.opt.a ELSE 0)

\* C9: !nil and !false are true and !v is false for every other value v, as
\* the result of OpNot in the machine and of unary Bang in the tree-walking
\* interpreter alike.
C9_NotIsTruthiness ==
    after_step("OpNot") =>
        /\ status = "running"
        /\ Last(stack) = Bool(falsey(Last(last.stack)))
        /\ unary_bang(Last(last.stack)) =
              [ok |-> TRUE, v |-> Bool(falsey(Last(last.stack)))]

\* C10: OpAdd replaces the two operands on top of the stack by left + right
\* for two numbers and by left followed by right for two strings (so that
\* after Constant(a), Constant(b), Add on an empty stack index 0 holds
\* a + b), and for any other pair of operands is a runtime error.
C10_AddNumbersStringsOrError ==
    after_step("OpAdd") =>
        LET right == At(last.stack, Len(last.stack) - 1)
            left == At(last.stack, Len(last.stack) - 2)
            below == SubSeq(last.stack, 1, Len(last.stack) - 2)
        IN CASE left.k = "Number" /\ right.k = "Number" ->
                    status = "running" /\ stack = Append(below, Number(left.n + right.n))
             [] left.k = "String" /\ right.k = "String" ->
                    status = "running" /\ stack = Append(below, String(left.s \o right.s))
             [] OTHER -> status = "runtime_error"

\* the operands of the binary instruction the latest step executed
right_operand == At(last.stack, Len(last.stack) - 1)
left_operand == At(last.stack, Len(last.stack) - 2)
below_operands == SubSeq(last.stack, 1, Len(last.stack) - 2)

C12_ComparisonRequiresSameType ==
    ((after_step("OpGreater") \/ after_step("OpLess"))
        /\ ~(left_operand.k = "Number" /\ right_operand.k = "Number")
        /\ ~(left_operand.k = "String" /\ right_operand.k = "String")) =>
        (status = "runtime_error" /\ had_error)

\* the equality relation on values: structural on numbers, strings and
\* booleans, nil equal to nil, identity on functions, classes and instances
equal_values(a, b) ==
    /\ a.k = b.k
    /\ CASE a.k = "Instance" -> a.n = b.n
         [] OTHER -> a.n = b.n /\ a.s = b.s

\* C13: OpEqual never fails and pushes whether its operands are equal values:
\* values of different types are never equal, and a function, class or
\* instance is equal to itself.
C13_EqualIsValueEquality ==
    after_step("OpEqual") =>
        /\ status = "running"
        /\ stack = Append(below_operands, Bool(equal_values(left_operand, right_operand)))

\* the value of a <op> b on the integers the programs use
apply(op, a, b) ==
    CASE op = "Plus" -> a + b
      [] op = "Minus" -> a - b
      [] op = "Star" -> a * b
      [] op = "Slash" -> a \div b

\* 8 <op1> 4 <op2> 2 with * and / binding tighter than + and -, and
\* operators of equal precedence grouped from the left
chain_value(op1, op2) ==
    IF op2 \in {"Star", "Slash"} /\ op1 \in {"Plus", "Minus"}
    THEN apply(op1, 8, apply(op2, 4, 2))
    ELSE apply(op2, apply(op1, 8, 4), 2)

\* C14: * and / bind tighter than + and -, and binary operators of equal
\* precedence associate to the left: 1 + 2 * 3 prints 7, (1 + 2) * 3 prints
\* 9, 8 - 3 - 2 prints 3, and 8 <op1> 4 <op2> 2 prints the value of that
\* grouping for all arithmetic operators.
C14_PrecedenceAndAssociativity ==
    pc = "done" =>
        /\ tokens = ProgTermFactor => (status = "ok" /\ out = <<PrintLine(Number(7))>>)
        /\ tokens = ProgGrouping => (status = "ok" /\ out = <<PrintLine(Number(9))>>)
        /\ tokens = ProgLeftAssoc => (status = "ok" /\ out = <<PrintLine(Number(3))>>)
        /\ \A op1 \in Arithmetic, op2 \in Arithmetic :
              tokens = ProgChain(op1, op2) =>
                 (status = "ok" /\ out = <<PrintLine(Number(chain_value(op1, op2)))>>)

C14_Witness ==
    /\ pc = "done"
    /\ tokens = ProgChain("Minus", "Star")
    /\ out = <<PrintLine(Number(0))>>

\* C15: unary - and ! bind tighter than every binary operator: -a + b
\* prints (-a) + b and !a == b prints whether (!a) equals b.
C15_UnaryBindsTighter ==
    pc = "done" =>
        /\ \A a \in {Num(1), Num(2)}, b \in {Num(2), Num(5)} :
              tokens = ProgNegateAdd(a, b) =>
                 (status = "ok"
                    /\ out = <<PrintLine(Number((0 - a.literal.n) + b.literal.n))>>)
        /\ \A a \in {T("Nil"), T("False"), T("True")},
              b \in {T("Nil"), T("False"), T("True")} :
              tokens = ProgNotEqual(a, b) =>
                 (status = "ok"
                    /\ out = <<PrintLine(Bool(b.type # "Nil"
                                  /\ ((b.type = "True") <=> (a.type # "True"))))>>)

OwnInitializerPrograms ==
    {ProgOwnInitializer, ProgOwnInitializerInFunction, ProgOwnInitializerAfterLocal}

\* no instruction of the compiler's chunk reads or writes the slot of a local
\* whose depth is still -1
no_uninitialised_slot_access(c) ==
    \A i \in 1..Len(c.locals) :
        c.locals[i].depth = -1 =>
            \A j \in 1..Len(c.function.code) :
                ~(c.function.code[j].op \in {"OpGetLocal", "OpSetLocal"}
                    /\ c.function.code[j].a = i - 1)

C18_RedeclarationRejected ==
    pc = "done" =>
        /\ tokens \in {ProgRedeclare, ProgRedeclareNested} =>
              (status = "compile_error" /\ had_error)
        /\ tokens = ProgShadowLocal => status # "compile_error"

\* the lines printed by a loop that counts from 0 to n - 1
count_lines(n) == [i \in 1..n |-> PrintLine(Number(i - 1))]

is_prefix(s, t) == Len(s) <= Len(t) /\ s = SubSeq(t, 1, Len(s))

\* the instructions the while program executes: the declaration of i, the
\* condition n + 1 times, the body n times
while_steps(n) == 2 + 5 * (n + 1) + 8 * n

for_steps(n) == 5 * (n + 1) + 10 * n

C21_NoFrameLeftWhenRunReturnsOk == status = "ok" => call_frames = <<>>

\* the latest step was Call on a callee of variant k (the callee lies below
\* the arguments on the stack the step started from)
called(k) ==
    /\ last.opt.op = "Call"
    /\ status # "ok"
    /\ Len(last.stack) - last.opt.a - 1 >= 0
    /\ At(last.stack, Len(last.stack) - last.opt.a - 1).k = k

\* the values that lay below the callee when the latest Call started
below_callee == SubSeq(last.stack, 1, Len(last.stack) - last.opt.a - 1)

\* C28: Call(n) on a class leaves the new instance in the callee's slot, on
\* top of the stack, with the n arguments removed; a class has no init
\* method here (a class body is empty), so a call with n > 0 fails with an
\* error instead.
C28_ClassCallLeavesInstance ==
    called("Class") =>
        IF last.opt.a = 0
        THEN /\ status = "running"
             /\ stack = Append(below_callee, Last(stack))
             /\ Last(stack).k = "Instance"
        ELSE status = "runtime_error"

\* C29: Call(n) on a native function removes the n arguments and the callee
\* and pushes the result: the values below the callee stay where they are,
\* and when the call succeeds the stack is n shorter than before.
C29_NativeCallPopsArgsAndCallee ==
    called("NativeFunc") =>
        /\ Len(stack) >= Len(below_callee)
        /\ SubSeq(stack, 1, Len(below_callee)) = below_callee
        /\ status = "running" => Len(stack) = Len(last.stack) - last.opt.a

\* C30: only OpDefineGlobal adds a name to globals (the natives are there
\* from init): no other instruction, OpSetGlobal included, does; OpSetGlobal
\* leaves the stack as long as it was.
C30_OnlyDefineGlobalAddsNames ==
    /\ last.opt.op \notin {"none", "OpDefineGlobal"} =>
            DOMAIN globals \subseteq DOMAIN last.globals
    /\ (last.opt.op = "OpSetGlobal" /\ status = "running") =>
            Len(stack) = Len(last.stack)

\* C22: after the first runtime error nothing of the program executes any
\* more: once had_error is set, no instruction is stepped, no statement is
\* interpreted and no line is written, in the machine's run loop and in the
\* loop of Runtime::run over the statements.
C22_NothingRunsAfterRuntimeError ==
    [][had_error => (out' = out /\ position' = position /\ steps' = steps)]_vars

\* tokens is what scan_tokens has made of the source text
scanned == pc # "scan" /\ tokens = scan_tokens(source)

\* what Scanner::scan_tokens returned for the source text: "ok" or the error
scan_error == scanner_scan_tokens(NewScanner(source)).err

token_types == [i \in 1..Len(tokens) |-> tokens[i].type]

\* C23: if scanning or compiling reports an error, no instruction is executed
\* and the run ends with exit code 65; a run in which no error occurred ends
\* with exit code 0.
C23_ErrorsEndWithExitCode65 ==
    /\ ((scanned /\ scan_error # "ok") \/ status = "compile_error") =>
            /\ steps = 0
            /\ pc = "done" => exit_code = 65
    /\ (pc = "done" /\ status = "ok") => exit_code = 0

\* C24: the token sequence scan_tokens hands over ends with exactly one Eof
\* token and holds no Eof before its end, for every source text.
C24_TokensEndWithOneEof ==
    scanned =>
        /\ Len(tokens) > 0
        /\ Last(tokens).type = "Eof"
        /\ \A i \in 1..(Len(tokens) - 1) : tokens[i].type # "Eof"

\* C25: a string literal closed by a quote gives one String token whose
\* literal is the text between the quotes, and scanning goes on after the
\* closing quote; an unterminated string is reported only for a text that
\* ends before the closing quote.
C25_ClosedStringIsOneToken ==
    /\ (scanned /\ source = SrcString) =>
            /\ token_types = <<"Print", "String", "Semicolon", "Eof">>
            /\ tokens[2].literal = String("a")
    /\ (scanned /\ source = SrcStringOnly) =>
            /\ token_types = <<"String", "Eof">>
            /\ tokens[1].literal = String("ab")
    /\ (scanned /\ scan_error = UnterminatedString) => source = SrcUnterminated

\* C26: a comment ends with its line: the tokens of the next line are
\* scanned, and they carry the next line's number.
C26_CommentEndsWithItsLine ==
    /\ (scanned /\ source = SrcComment) =>
            /\ token_types = <<"Print", "Number", "Semicolon", "Eof">>
            /\ tokens[1].line = 2
    /\ (scanned /\ source = SrcCommentLast) =>
            /\ token_types = <<"Print", "Number", "Semicolon", "Eof">>
            /\ tokens[1].line = 1

\* the token type the operator's characters stand for
operator_type(op) ==
    CASE op = "<" -> "Less"
      [] op = "<=" -> "LessEqual"
      [] op = ">" -> "Greater"
      [] op = ">=" -> "GreaterEqual"
      [] op = "==" -> "EqualEqual"
      [] op = "!=" -> "BangEqual"
      [] op = "/" -> "Slash"
      [] op = "+" -> "Plus"
      [] op = "-" -> "Minus"
      [] op = "*" -> "Star"

\* C27: every operator gives its token, with all its characters as the
\* lexeme, and the scan goes on behind it: < > ! = alone, <= >= != ==, and
\* a / that no / follows; none is reported as unexpected or dropped.
C27_OperatorsGiveTheirTokens ==
    /\ \A op \in Operators :
          (scanned /\ source \in {SrcBinary(op), SrcBinaryTight(op)}) =>
              /\ scan_error = "ok"
              /\ token_types =
                    <<"Print", "Number", operator_type(op), "Number", "Semicolon", "Eof">>
              /\ tokens[3].lexeme = op
    /\ (scanned /\ source = SrcBang) =>
            token_types = <<"Print", "Bang", "True", "Semicolon", "Eof">>
    /\ (scanned /\ source = SrcEqual) => tokens[3].type = "Equal"

\* the instance values reachable from a value: itself and, through its
\* fields, the instances stored in it
RECURSIVE held_in(_)
held_in(v) ==
    IF v.k = "Instance" THEN {v} \cup UNION {held_in(p[2]) : p \in v.f} ELSE {}

\* every instance value the machine holds: on the stack, in the globals and
\* in fields of those
instances ==
    UNION {held_in(stack[i]) : i \in DOMAIN stack}
        \cup UNION {held_in(globals[n]) : n \in DOMAIN globals}

\* C31: instances have reference semantics: all the values of one instance id
\* that the machine holds (stack, globals, fields of other instances) have the
\* same fields, also after a SetProperty through one of them.
C31_OneInstanceOneSetOfFields ==
    \A x \in instances : \A y \in instances : x.n = y.n => x.f = y.f

\* C32: the number of live call frames never exceeds a fixed cap, 64: the
\* call that would exceed it is not entered and the run ends there with the
\* StackOverflow runtime error.
C32_CallFramesStayUnderTheCap ==
    Len(call_frames) <= 64

\* C33: a call with 255 arguments compiles, and a call with 256 arguments is
\* rejected: the compile ends with the error TooManyArgs and nothing runs.
C33_CallTakesAtMost255Arguments ==
    /\ (pc # "compile" /\ tokens = ProgManyArgs(255)) =>
            status \notin {"compile_error", "panic"}
    /\ (pc # "compile" /\ tokens = ProgManyArgs(256)) =>
            /\ status = "compile_error"
            /\ out = <<ErrorLine("TooManyArgs")>>

\* C34: an = behind an expression that is no assignment target (a + b = c)
\* is the compile error InvalidAssignmentTarget, returned as an error value:
\* the run reports it, executes nothing and ends with exit code 65; the
\* chained a = b = c is accepted and assigns c to b and then to a.
C34_InvalidTargetIsACompileError ==
    /\ (pc = "done" /\ tokens = ProgAssignToSum) =>
            /\ status = "compile_error"
            /\ out = <<ErrorLine("InvalidAssignmentTarget")>>
            /\ exit_code = 65
    /\ (pc = "done" /\ tokens = ProgAssignChain) =>
            /\ status = "ok"
            /\ printed = <<Number(3), Number(3)>>

\* C35: a call of a function value runs the body the value was created from:
\* of two functions declared under one name the call of the name runs the
\* second body, and a function value returned by its declaring function is
\* still callable after that function has returned.
C35_CallRunsTheBodyOfTheValue ==
    /\ (pc = "done" /\ tokens = ProgTwoFunctions) =>
            (status = "ok" /\ printed = <<Number(2)>>)
    /\ (pc = "done" /\ tokens = ProgReturnedFunction) =>
            (status = "ok" /\ printed = <<Number(1)>>)

\* the instructions i .. j of the code are all OpPop
all_pop(code, i, j) == \A p \in i..j : code[p].op = "OpPop"

\* C36: at the closing brace of a block the compiler emits one OpPop for each
\* local declared in the block, and no other, and removes those locals and
\* no other: in f, with n locals before a block of k locals, the k OpPop
\* follow the n + k initialisers and are the only ones, the local declared
\* behind the block gets slot n, and when the run has passed the block the
\* stack is as deep as it was at the block's opening brace.
C36_BlockPopsItsLocals ==
    \A n \in 0..MaxLocals : \A k \in 0..MaxLocals :
        (tokens = ProgBlock(n, k) /\ pc \in {"run", "done"}) =>
            /\ status \in {"running", "ok"}
            /\ Len(call_frames) = 2 =>
                  LET code == Last(call_frames).function.code
                  IN /\ Cardinality({p \in DOMAIN code : code[p].op = "OpPop"}) = k
                     /\ all_pop(code, n + k + 1, n + k + k)
                     /\ code[n + k + k + 2].op = "OpGetLocal"
                     /\ code[n + k + k + 2].a = n
            /\ (after_step("OpPop") /\ Len(last.call_frames) = 2) =>
                  Len(stack) >= n + 1
            /\ after_step("OpPrint") =>
                  (Len(stack) = n + 2 /\ printed = <<Number(5)>>)
            /\ pc = "done" => printed = <<Number(5)>>

C36_Witness ==
    /\ tokens = ProgBlock(MaxLocals, MaxLocals)
    /\ after_step("OpPrint")
    /\ printed = <<Number(5)>>

\* C37: in the tree-walking interpreter an assignment in a function body to
\* a variable of an enclosing scope is visible after the call:
\* var x = 0; fun f() { x = 1; } f(); print x; prints 1.
C37_AssignmentInFunctionIsVisible ==
    (statements = ScriptAssignInFunction /\ pc = "done") =>
        (status = "ok" /\ printed = <<Number(1)>>)

\* C38: in the tree-walking interpreter a return in the body of a while or
\* for loop ends the loop and the call: the call of
\* fun f() { while (true) { return 1; } } comes back with 1, the run is never
\* in a loop it does not leave, and it ends with 1 and 2 printed.
C38_ReturnEndsTheLoop ==
    statements \in {ScriptReturnInWhile, ScriptReturnInFor} =>
        /\ pc # "loop"
        /\ pc = "done" => (status = "ok" /\ printed = <<Number(1), Number(2)>>)

\* C39: in the tree-walking interpreter no statement behind an executed
\* return runs: the call of fun f() { return; print 1; } prints nothing, and
\* neither does the print behind return 3;.
C39_NothingRunsAfterReturn ==
    /\ (statements = ScriptReturnBare /\ pc = "done") =>
            (status = "ok" /\ printed = <<Number(2)>>)
    /\ (statements = ScriptReturnValue /\ pc = "done") =>
            (status = "ok" /\ printed = <<Number(3), Number(2)>>)

=============================================================================
